---- MODULE Spec2Model ----
(***************************************************************************)
(* A model of the Synology Cloud Sync decryption pipeline (package core,   *)
(* package util): the container decoder, the key unwrap, the CBC block     *)
(* decryptor, the hold-back of the last chunk, and the coupling to the     *)
(* external `lz4 -d` process with its stdout reader goroutine.             *)
(*                                                                         *)
(* Byte strings are sequences of naturals in 0..255; a Go string is the    *)
(* sequence of its bytes.  A nil slice is the value Nil, which differs     *)
(* from the empty slice << >>.  A Go error is a string, "" standing for    *)
(* nil; a run-time panic is an error whose text starts with "panic".       *)
(*                                                                         *)
(* Library primitives the repository calls but does not implement are      *)
(* modelled by small stand-ins with the same interface and the same error  *)
(* cases: crypto/md5 by a 16-byte rolling hash, the AES block function by  *)
(* a keyed byte-wise permutation, RSA-OAEP by a keyed transform with an    *)
(* integrity tag, and the lz4 program by a framed copy format.  The        *)
(* repository's own algorithms (OpenSSLKDF, StripPKCS7Padding, the salted  *)
(* hash, the object decoder, the driver) are translated as written.        *)
(*                                                                         *)
(* Spec is one call of DecryptStream with its goroutines.  FilesSpec is    *)
(* the batch entry points of package files and of the CLI, and their       *)
(* derivations of output names; there DecryptFile is a call that fails on  *)
(* a chosen subset of the files.                                           *)
(***************************************************************************)
EXTENDS Integers, Sequences, FiniteSets, TLC

Nil == <<-1>>

Min(a, b) == IF a < b THEN a ELSE b

(* s[from+1 .. to], Go's s[from:to] *)
Slice(s, from, to) == SubSeq(s, from + 1, to)

(* a byte slice given by its elements *)
Bytes(f) == << >> \o f

(***************************************************************************)
(* Text constants of the wire format (the bytes of the Go string literals) *)
(***************************************************************************)
MagicHeader == <<95, 95, 67, 76, 79, 85, 68, 83, 89, 78, 67, 95, 69, 78, 67, 95, 95>>
T_type == <<116, 121, 112, 101>>
T_metadata == <<109, 101, 116, 97, 100, 97, 116, 97>>
T_data == <<100, 97, 116, 97>>
T_digest == <<100, 105, 103, 101, 115, 116>>
T_md5 == <<109, 100, 53>>
T_enc_key1 == <<101, 110, 99, 95, 107, 101, 121, 49>>
T_enc_key2 == <<101, 110, 99, 95, 107, 101, 121, 50>>
T_key1_hash == <<107, 101, 121, 49, 95, 104, 97, 115, 104>>
T_salt == <<115, 97, 108, 116>>
T_session_key_hash == <<115, 101, 115, 115, 105, 111, 110, 95, 107, 101, 121, 95, 104, 97, 115, 104>>
T_version == <<118, 101, 114, 115, 105, 111, 110>>
T_major == <<109, 97, 106, 111, 114>>
T_minor == <<109, 105, 110, 111, 114>>
T_file_md5 == <<102, 105, 108, 101, 95, 109, 100, 53>>

(***************************************************************************)
(* Library stand-ins: bits, hex, base64, MD5, AES, RSA                     *)
(***************************************************************************)
XorBit(a, b, p) == (((a \div p) + (b \div p)) % 2) * p

Xor(a, b) ==
    XorBit(a, b, 1) + XorBit(a, b, 2) + XorBit(a, b, 4) + XorBit(a, b, 8)
    + XorBit(a, b, 16) + XorBit(a, b, 32) + XorBit(a, b, 64) + XorBit(a, b, 128)

HexDigit(n) == IF n < 10 THEN 48 + n ELSE 87 + n

(* encoding/hex EncodeToString: two lowercase digits per byte *)
HexEncodeToString(b) ==
    Bytes([i \in 1..(2 * Len(b)) |->
              IF i % 2 = 1 THEN HexDigit(b[(i + 1) \div 2] \div 16)
                           ELSE HexDigit(b[i \div 2] % 16)])

(* encoding/hex reverseHexTable: 0..15 for a hex digit of either case, 255 otherwise *)
FromHexChar(c) ==
    IF c >= 48 /\ c <= 57 THEN c - 48
    ELSE IF c >= 97 /\ c <= 102 THEN c - 87
    ELSE IF c >= 65 /\ c <= 70 THEN c - 55
    ELSE 255

(* encoding/hex Decode: the pairs decoded before the first bad byte, and the error *)
HexDecode(src) ==
    LET pairs == Len(src) \div 2
        Bad(i) == FromHexChar(src[2 * i - 1]) > 15 \/ FromHexChar(src[2 * i]) > 15
        badPairs == {i \in 1..pairs : Bad(i)}
        firstBad == IF badPairs = {} THEN pairs + 1
                    ELSE CHOOSE i \in badPairs : \A j \in badPairs : i <= j
        out == Bytes([i \in 1..(firstBad - 1) |->
                         FromHexChar(src[2 * i - 1]) * 16 + FromHexChar(src[2 * i])])
    IN  IF badPairs # {} THEN [n |-> firstBad - 1, err |-> "invalid byte", data |-> out]
        ELSE IF Len(src) % 2 = 1
             THEN [n |-> pairs,
                   err |-> IF FromHexChar(src[Len(src)]) > 15 THEN "invalid byte"
                           ELSE "odd length hex string",
                   data |-> out]
        ELSE [n |-> pairs, err |-> "", data |-> out]

(* the base64 standard alphabet: A-Z a-z 0-9 + / ; 255 for any other byte *)
B64Val(c) ==
    IF c >= 65 /\ c <= 90 THEN c - 65
    ELSE IF c >= 97 /\ c <= 122 THEN c - 71
    ELSE IF c >= 48 /\ c <= 57 THEN c + 4
    ELSE IF c = 43 THEN 62
    ELSE IF c = 47 THEN 63
    ELSE 255

B64Char(v) ==
    IF v < 26 THEN 65 + v
    ELSE IF v < 52 THEN 71 + v
    ELSE IF v < 62 THEN v - 4
    ELSE IF v = 62 THEN 43 ELSE 47

(* base64.StdEncoding.DecodeString: padded quanta of four characters; the *)
(* result is never nil                                                    *)
Base64DecodeString(s) ==
    LET n == Len(s)
        q == n \div 4
        padLen == IF n >= 2 /\ s[n] = 61 /\ s[n - 1] = 61 THEN 2
                  ELSE IF n >= 1 /\ s[n] = 61 THEN 1 ELSE 0
        dataLen == n - padLen
        okShape == n % 4 = 0 /\ \A i \in 1..dataLen : B64Val(s[i]) # 255
        V(i) == IF i <= dataLen THEN B64Val(s[i]) ELSE 0
        outLen == q * 3 - padLen
        Byte(k) ==
            LET g == (k - 1) \div 3
                r == (k - 1) % 3
                a == V(4 * g + 1)
                b == V(4 * g + 2)
                c == V(4 * g + 3)
                d == V(4 * g + 4)
            IN  IF r = 0 THEN a * 4 + b \div 16
                ELSE IF r = 1 THEN (b % 16) * 16 + c \div 4
                ELSE (c % 4) * 64 + d
    IN  IF okShape THEN [err |-> "", data |-> Bytes([k \in 1..outLen |-> Byte(k)])]
        ELSE [err |-> "illegal base64 data", data |-> << >>]

MD5Size == 16

RECURSIVE MD5Fold(_, _, _, _)
MD5Fold(data, lo, hi, h) ==
    IF lo > hi THEN h
    ELSE IF lo = hi THEN (h * 31 + data[lo] + 1) % 65521
    ELSE LET mid == (lo + hi) \div 2
             left == MD5Fold(data, lo, mid, h)
         IN  IF left >= 0 THEN MD5Fold(data, mid + 1, hi, left) ELSE left

(* crypto/md5 stand-in: a 16-byte digest of the whole input *)
MD5Sum(data) ==
    LET Digest(h) == Bytes([i \in 1..MD5Size |->
                              ((IF i % 2 = 1 THEN h ELSE h \div 256) + 37 * (i - 1)) % 256])
    IN  Digest(MD5Fold(data, 1, Len(data), 7))

BlockSize == 16

(* the AES block function stand-in: a permutation of 16-byte blocks keyed *)
(* by a 32-byte key, acting on byte i of the block                        *)
AESDecryptByte(key, i, c) == (c + 512 - key[i] - key[i + BlockSize]) % 256

AESEncryptByte(key, i, p) == (p + key[i] + key[i + BlockSize]) % 256

(* cipher.NewCBCDecrypter(block, iv).CryptBlocks(dst, src): block j is    *)
(* D(c_j) xor c_(j-1), the chain value is kept for the next call; input   *)
(* that is not whole blocks panics                                        *)
CryptBlocks(bm, src) ==
    IF Len(src) % BlockSize # 0
    THEN [err |-> "panic: crypto/cipher: input not full blocks", dst |-> << >>, bm |-> bm]
    ELSE LET n == Len(src)
             Out(k) ==
                 LET i == ((k - 1) % BlockSize) + 1
                 IN  Xor(AESDecryptByte(bm.key, i, src[k]),
                         IF k <= BlockSize THEN bm.iv[i] ELSE src[k - BlockSize])
         IN  [err |-> "",
              dst |-> Bytes([k \in 1..n |-> Out(k)]),
              bm |-> IF n = 0 THEN bm
                     ELSE [key |-> bm.key, iv |-> SubSeq(src, n - BlockSize + 1, n)]]

(* x509.ParsePKCS1PrivateKey / ParsePKCS8PrivateKey stand-in: a key is a  *)
(* DER SEQUENCE (first byte 0x30) with a body                             *)
ParsePrivateKeyOK(privateKey) == Len(privateKey) >= 2 /\ privateKey[1] = 48

RECURSIVE SumBytes(_, _)
SumBytes(s, i) == IF i > Len(s) THEN 0 ELSE s[i] + SumBytes(s, i + 1)

RSAKeyTag(privateKey) == SumBytes(privateKey, 1) % 256

(* rsa.DecryptOAEP stand-in: the first ciphertext byte is the integrity   *)
(* tag of the key pair, the rest is the message shifted by a key byte     *)
RSADecryptOAEP(privateKey, ciphertext) ==
    IF Len(ciphertext) = 0 \/ ciphertext[1] # RSAKeyTag(privateKey)
    THEN [err |-> "crypto/rsa: decryption error", data |-> Nil]
    ELSE [err |-> "",
          data |-> Bytes([i \in 1..(Len(ciphertext) - 1) |->
                             (ciphertext[i + 1] + 256 - privateKey[2]) % 256])]

(***************************************************************************)
(* package core, cipher functions                                          *)
(***************************************************************************)
MD5Hash(data) == MD5Sum(data)

(* the loop `for i := 0; i < count; i++ { h = MD5Hash(h) }`, run in ten  *)
(* equal parts and a remainder                                            *)
RECURSIVE HashCountTimes(_, _)
HashCountTimes(h, count) ==
    IF count = 0 THEN h
    ELSE IF count = 1 THEN MD5Hash(h)
    ELSE LET q == count \div 10
             h1 == HashCountTimes(h, q)
             h2 == HashCountTimes(h1, q)
             h3 == HashCountTimes(h2, q)
             h4 == HashCountTimes(h3, q)
             h5 == HashCountTimes(h4, q)
             h6 == HashCountTimes(h5, q)
             h7 == HashCountTimes(h6, q)
             h8 == HashCountTimes(h7, q)
             h9 == HashCountTimes(h8, q)
             h10 == HashCountTimes(h9, q)
             r1 == HashCountTimes(h10, (count % 10) \div 2)
             r2 == HashCountTimes(r1, (count % 10) - (count % 10) \div 2)
         IN  IF /\ Len(h1) >= 0
                /\ Len(h2) >= 0
                /\ Len(h3) >= 0
                /\ Len(h4) >= 0
                /\ Len(h5) >= 0
                /\ Len(h6) >= 0
                /\ Len(h7) >= 0
                /\ Len(h8) >= 0
                /\ Len(h9) >= 0
                /\ Len(h10) >= 0
                /\ Len(r1) >= 0
             THEN r2
             ELSE h

KDFIterations == 1000

(* the count of line 19 kept whatever the salt is *)
KDFCountOne(salt) == 1

KDFCount(salt) == IF Len(salt) > 0 THEN KDFIterations ELSE 1

RECURSIVE KDFLoop(_, _, _, _, _, _)
KDFLoop(temp, fd, password, salt, count, need) ==
    IF Len(fd) >= need THEN fd
    ELSE LET Round(h) == KDFLoop(h, fd \o h, password, salt, count, need)
         IN  Round(HashCountTimes(temp \o password \o salt, count))

OpenSSLKDF(password, salt, keySize, ivSize) ==
    LET Split(fd) ==
            [key |-> Slice(fd, 0, keySize), iv |-> Slice(fd, keySize, keySize + ivSize),
             err |-> ""]
    IN  Split(KDFLoop(<< >>, << >>, password, salt, KDFCount(salt), keySize + ivSize))

(* lines 52-70 without the loop of lines 63-67 *)
StripPKCS7PaddingUnverified(data) ==
    IF Len(data) % 16 # 0 THEN [err |-> "invalid length", data |-> Nil]
    ELSE IF Len(data) = 0
         THEN [err |-> "panic: index out of range [-1]", data |-> Nil]
    ELSE LET pad == data[Len(data)]
         IN  IF pad > 16 THEN [err |-> "invalid padding byte", data |-> Nil]
             ELSE [err |-> "", data |-> Slice(data, 0, Len(data) - pad)]

(* lines 52-70 with `pad >= 16` for `pad > 16` at line 58 *)
StripPKCS7PaddingStrict(data) ==
    IF Len(data) % 16 # 0 THEN [err |-> "invalid length", data |-> Nil]
    ELSE IF Len(data) = 0
         THEN [err |-> "panic: index out of range [-1]", data |-> Nil]
    ELSE LET pad == data[Len(data)]
         IN  IF pad >= 16 THEN [err |-> "invalid padding byte", data |-> Nil]
             ELSE IF \E i \in (Len(data) - pad)..(Len(data) - 1) : data[i + 1] # pad
                  THEN [err |-> "invalid padding", data |-> Nil]
             ELSE [err |-> "", data |-> Slice(data, 0, Len(data) - pad)]

StripPKCS7Padding(data) ==
    IF Len(data) % 16 # 0 THEN [err |-> "invalid length", data |-> Nil]
    ELSE IF Len(data) = 0
         THEN [err |-> "panic: index out of range [-1]", data |-> Nil]
    ELSE LET pad == data[Len(data)]
         IN  IF pad > 16 THEN [err |-> "invalid padding byte", data |-> Nil]
             ELSE IF \E i \in (Len(data) - pad)..(Len(data) - 1) : data[i + 1] # pad
                  THEN [err |-> "invalid padding", data |-> Nil]
             ELSE [err |-> "", data |-> Slice(data, 0, Len(data) - pad)]

aesKeySizeBits == 256

aesIVLengthBytes == 16

CSENCPBKDF(password, salt) == OpenSSLKDF(password, salt, aesKeySizeBits \div 8, aesIVLengthBytes)

(* aes.NewCipher accepts keys of 16, 24 or 32 bytes *)
DecryptorWithKeyIV(key, iv) ==
    IF Len(key) \notin {16, 24, 32}
    THEN [err |-> "crypto/aes: invalid key size", bm |-> [key |-> << >>, iv |-> << >>]]
    ELSE [err |-> "", bm |-> [key |-> key, iv |-> iv]]

DecryptorWithPassword(password, salt) ==
    LET WithKey(k) ==
            IF k.err # "" THEN [err |-> k.err, bm |-> [key |-> << >>, iv |-> << >>]]
            ELSE DecryptorWithKeyIV(k.key, k.iv)
    IN  WithKey(CSENCPBKDF(password, salt))

DecryptWithPassword(ciphertext, password, salt) ==
    LET Decrypted(c) ==
            IF c.err # "" THEN [err |-> c.err, data |-> Nil]
            ELSE StripPKCS7Padding(c.dst)
        WithDecryptor(dec) ==
            IF dec.err # "" THEN [err |-> dec.err, data |-> Nil]
            ELSE Decrypted(CryptBlocks(dec.bm, ciphertext))
    IN  WithDecryptor(DecryptorWithPassword(password, salt))

DecryptWithPrivateKey(ciphertext, privateKey) ==
    IF ~ParsePrivateKeyOK(privateKey)
    THEN [err |-> "failed to parse private key", data |-> Nil]
    ELSE RSADecryptOAEP(privateKey, ciphertext)

SaltedHashOf(salt, data) == salt \o HexEncodeToString(MD5Sum(salt \o data))

IsSaltedHashCorrect(saltedHash, data) ==
    IF Len(saltedHash) < 10 THEN FALSE
    ELSE IF Len(saltedHash) < 10 + 32 THEN FALSE
    ELSE LET saltLen == IF Len(saltedHash) - 32 > 10 THEN 10 ELSE Len(saltedHash) - 32
         IN  SaltedHashOf(Slice(saltedHash, 0, saltLen), data) = saltedHash

(***************************************************************************)
(* package core, the object decoder                                        *)
(*                                                                         *)
(* The input reader is a file: Read(p) delivers min(len(p), remaining)     *)
(* bytes, (0, nil) for an empty p, (0, io.EOF) at the end of the file, and *)
(* a non-EOF error once the offset failAt is reached (failAt = -1: never). *)
(* A reader is [data, failAt]; every operator takes the offset it reads at *)
(* and returns the offset it leaves the reader at.                         *)
(***************************************************************************)
(* a reader whose failure is taken for the end of the input *)
ReadErrorAsEOF(r, pos, n) ==
    IF n = 0 THEN [n |-> 0, err |-> "", data |-> << >>, pos |-> pos]
    ELSE IF pos >= Len(r.data) \/ (r.failAt >= 0 /\ pos >= r.failAt)
    THEN [n |-> 0, err |-> "EOF", data |-> << >>, pos |-> pos]
    ELSE LET k == Min(Min(n, Len(r.data) - pos),
                      IF r.failAt >= 0 THEN r.failAt - pos ELSE n)
         IN  [n |-> k, err |-> "", data |-> Slice(r.data, pos, pos + k), pos |-> pos + k]

Read(r, pos, n) ==
    IF r.failAt >= 0 /\ pos >= r.failAt
    THEN [n |-> 0, err |-> "read error", data |-> << >>, pos |-> pos]
    ELSE IF n = 0 THEN [n |-> 0, err |-> "", data |-> << >>, pos |-> pos]
    ELSE IF pos >= Len(r.data) THEN [n |-> 0, err |-> "EOF", data |-> << >>, pos |-> pos]
    ELSE LET k == Min(Min(n, Len(r.data) - pos),
                      IF r.failAt >= 0 THEN r.failAt - pos ELSE n)
         IN  [n |-> k, err |-> "", data |-> Slice(r.data, pos, pos + k), pos |-> pos + k]

(* decoded values: Go's nil, int, []byte, string, map[string]interface{} *)
VNull == [t |-> "null", v |-> 0]

VInt(reg) == [t |-> "int", v |-> reg]

VBytes(b) == [t |-> "bytes", v |-> b]

VStr(b) == [t |-> "str", v |-> b]

VMap(m) == [t |-> "map", v |-> m]

EmptyMap == << >>

MapPut(m, k, v) == [x \in (DOMAIN m) \cup {k} |-> IF x = k THEN v ELSE m[x]]

(* a 64-bit Go int is kept as its 8 bytes, most significant first *)
Int64Zero == <<0, 0, 0, 0, 0, 0, 0, 0>>

Int64Of(n) == <<0, 0, 0, 0, 0, 0, n \div 256, n % 256>>

(* result<<8 | int(b) on a 64-bit register *)
ShiftInByte(reg, b) == Tail(reg) \o <<b>>

HexOfMagic == HexEncodeToString(MD5Sum(MagicHeader))

(* ValidateHeader without the comparison of lines 53-55 *)
ValidateHeaderNoHashCheck(r) ==
    LET m == Read(r, 0, Len(MagicHeader))
    IN  IF m.err # "" THEN [err |-> m.err, pos |-> m.pos]
        ELSE IF m.n # Len(MagicHeader) THEN [err |-> "incomplete magic header", pos |-> m.pos]
        ELSE IF m.data # MagicHeader THEN [err |-> "invalid magic header", pos |-> m.pos]
        ELSE LET h == Read(r, m.pos, 32)
             IN  IF h.err # "" THEN [err |-> h.err, pos |-> h.pos]
                 ELSE IF h.n # 32 THEN [err |-> "incomplete magic hash", pos |-> h.pos]
                 ELSE [err |-> "", pos |-> h.pos]

ValidateHeader(r) ==
    LET m == Read(r, 0, Len(MagicHeader))
    IN  IF m.err # "" THEN [err |-> m.err, pos |-> m.pos]
        ELSE IF m.n # Len(MagicHeader) THEN [err |-> "incomplete magic header", pos |-> m.pos]
        ELSE IF m.data # MagicHeader THEN [err |-> "invalid magic header", pos |-> m.pos]
        ELSE LET h == Read(r, m.pos, 32)
             IN  IF h.err # "" THEN [err |-> h.err, pos |-> h.pos]
                 ELSE IF h.n # 32 THEN [err |-> "incomplete magic hash", pos |-> h.pos]
                 ELSE IF h.data # HexOfMagic THEN [err |-> "invalid magic hash", pos |-> h.pos]
                 ELSE [err |-> "", pos |-> h.pos]

readBytes(r, pos) ==
    LET l == Read(r, pos, 2)
    IN  IF l.err # "" THEN [val |-> VNull, err |-> l.err, pos |-> l.pos]
        ELSE IF l.n # 2 THEN [val |-> VNull, err |-> "incomplete length field", pos |-> l.pos]
        ELSE LET length == l.data[1] * 256 + l.data[2]
                 d == Read(r, l.pos, length)
             IN  IF d.err # "" THEN [val |-> VNull, err |-> d.err, pos |-> d.pos]
                 ELSE IF d.n # length THEN [val |-> VNull, err |-> "incomplete data", pos |-> d.pos]
                 ELSE [val |-> VBytes(d.data), err |-> "", pos |-> d.pos]

readString(r, pos) ==
    LET b == readBytes(r, pos)
    IN  IF b.err # "" THEN b ELSE [val |-> VStr(b.val.v), err |-> "", pos |-> b.pos]

RECURSIVE BigEndian(_, _, _)
BigEndian(data, i, reg) ==
    IF i > Len(data) THEN reg ELSE BigEndian(data, i + 1, ShiftInByte(reg, data[i]))

readInt(r, pos) ==
    LET l == Read(r, pos, 1)
    IN  IF l.err # "" THEN [val |-> VNull, err |-> l.err, pos |-> l.pos]
        ELSE IF l.n # 1 THEN [val |-> VNull, err |-> "incomplete length byte", pos |-> l.pos]
        ELSE LET length == l.data[1]
             IN  IF length > 8 THEN [val |-> VNull, err |-> "integer too large", pos |-> l.pos]
                 ELSE IF length = 0 THEN [val |-> VInt(Int64Zero), err |-> "", pos |-> l.pos]
                 ELSE LET d == Read(r, l.pos, length)
                      IN  IF d.err # "" THEN [val |-> VNull, err |-> d.err, pos |-> d.pos]
                          ELSE IF d.n # length
                               THEN [val |-> VNull, err |-> "incomplete integer data", pos |-> d.pos]
                          ELSE [val |-> VInt(BigEndian(d.data, 1, Int64Zero)),
                                err |-> "", pos |-> d.pos]

RECURSIVE ReadObject(_, _), readOrderedDictLoop(_, _, _)
ReadObject(r, pos) ==
    LET h == Read(r, pos, 1)
    IN  IF h.err # "" THEN [val |-> VNull, err |-> h.err, pos |-> h.pos]
        ELSE IF h.n # 1 THEN [val |-> VNull, err |-> "EOF", pos |-> h.pos]
        ELSE IF h.data[1] = 66 THEN readOrderedDictLoop(r, h.pos, EmptyMap)
        ELSE IF h.data[1] = 64 THEN [val |-> VNull, err |-> "", pos |-> h.pos]
        ELSE IF h.data[1] = 17 THEN readBytes(r, h.pos)
        ELSE IF h.data[1] = 16 THEN readString(r, h.pos)
        ELSE IF h.data[1] = 1 THEN readInt(r, h.pos)
        ELSE [val |-> VNull, err |-> "unknown type byte", pos |-> h.pos]

(* the body of readOrderedDict's for loop, with the map built so far *)
readOrderedDictLoop(r, pos, result) ==
    LET key == ReadObject(r, pos)
    IN  IF key.err # "" THEN [val |-> VNull, err |-> key.err, pos |-> key.pos]
        ELSE IF key.val.t = "null" THEN [val |-> VMap(result), err |-> "", pos |-> key.pos]
        ELSE IF key.val.t # "str"
             THEN [val |-> VNull, err |-> "ordered dict key must be string", pos |-> key.pos]
        ELSE LET value == ReadObject(r, key.pos)
             IN  IF value.err # "" THEN [val |-> VNull, err |-> value.err, pos |-> value.pos]
                 ELSE readOrderedDictLoop(r, value.pos, MapPut(result, key.val.v, value.val))

readOrderedDict(r, pos) == readOrderedDictLoop(r, pos, EmptyMap)

(***************************************************************************)
(* package core, DecryptStreamWithFilename: the body of the receive loop   *)
(* as a function of the driver's locals d, the shared digest md5 and the   *)
(* received item (a nil salt slice is kept as the empty one: the code only *)
(* takes its length and appends it).  It returns the new locals, the error *)
(* returned ("" when the loop goes on), the bytes handed to                *)
(* decompressor.Write (Nil when no write is made) and the list of the      *)
(* key-unwrap functions that were called.                                  *)
(***************************************************************************)
StreamItem(k, v, dt, e) == [Key |-> k, Value |-> v, Data |-> dt, Error |-> e]

NoBlockMode == [key |-> << >>, iv |-> << >>]

NilDecryptor == [nil |-> TRUE, bm |-> NoBlockMode]

NilDigest == [nil |-> TRUE, data |-> << >>]

NewDigest == [nil |-> FALSE, data |-> << >>]

DriverInit ==
    [sessionKey |-> Nil, decryptor |-> NilDecryptor, expectedMD5Digest |-> << >>,
     encKey1Bytes |-> Nil, encKey2Bytes |-> Nil, salt |-> << >>,
     sessionKeyHash |-> << >>, decryptedChunk |-> Nil]

Outcome(d, md5, ret, write, path) ==
    [d |-> d, md5 |-> md5, ret |-> ret, write |-> write, path |-> path]

IsPanic(e) == e \in {"panic: crypto/cipher: input not full blocks",
                     "panic: index out of range [-1]",
                     "panic: interface conversion",
                     "panic: slice bounds out of range"}

(* case "version" with `major < 1 || major > 3` for the test of line 299 *)
VersionCheckRange(value) ==
    IF value.t # "map" THEN ""
    ELSE LET version == value.v
             IsInt(k) == k \in DOMAIN version /\ version[k].t = "int"
         IN  IF ~IsInt(T_major) THEN "unexpected major version type"
             ELSE IF ~IsInt(T_minor) THEN "unexpected minor version type"
             ELSE IF version[T_major].v \notin {Int64Of(1), Int64Of(2), Int64Of(3)}
                  THEN "unsupported version"
             ELSE ""

(* case "version": *)
VersionCheck(value) ==
    IF value.t # "map" THEN ""
    ELSE LET version == value.v
             IsInt(k) == k \in DOMAIN version /\ version[k].t = "int"
         IN  IF ~IsInt(T_major) THEN "unexpected major version type"
             ELSE IF ~IsInt(T_minor) THEN "unexpected minor version type"
             ELSE IF version[T_major].v # Int64Of(1) /\ version[T_major].v # Int64Of(3)
                  THEN "unsupported version"
             ELSE ""

(* case "key1_hash": *)
Key1HashCheck(cfg, d, value) ==
    IF cfg.Password # Nil /\ d.encKey1Bytes # Nil
    THEN IF value.t # "str" THEN "panic: interface conversion"
         ELSE IF Len(value.v) < 10 THEN "panic: slice bounds out of range"
         ELSE IF SaltedHashOf(Slice(value.v, 0, 10), cfg.Password) # value.v
              THEN "password hash mismatch"
         ELSE ""
    ELSE ""

HandleHeader(cfg, d, md5, item) ==
    LET k == item.Key
        v == item.Value
        Go(dd) == Outcome(dd, md5, "", Nil, << >>)
        Fail(e) == Outcome(d, md5, e, Nil, << >>)
    IN  IF k = T_digest
        THEN IF v.t = "str" /\ v.v = T_md5 THEN Outcome(d, NewDigest, "", Nil, << >>)
             ELSE Fail("unexpected digest")
        ELSE IF k = T_enc_key1
        THEN IF v.t = "str"
             THEN LET b == Base64DecodeString(v.v)
                  IN  IF b.err # "" THEN Fail("failed to decode enc_key1")
                      ELSE Go([d EXCEPT !.encKey1Bytes = b.data])
             ELSE Go(d)
        ELSE IF k = T_enc_key2
        THEN IF v.t = "str"
             THEN LET b == Base64DecodeString(v.v)
                  IN  IF b.err # "" THEN Fail("failed to decode enc_key2")
                      ELSE Go([d EXCEPT !.encKey2Bytes = b.data])
             ELSE Go(d)
        ELSE IF k = T_key1_hash
        THEN LET e == Key1HashCheck(cfg, d, v) IN IF e # "" THEN Fail(e) ELSE Go(d)
        ELSE IF k = T_salt
        THEN IF v.t = "str" THEN Go([d EXCEPT !.salt = v.v]) ELSE Go(d)
        ELSE IF k = T_session_key_hash
        THEN IF v.t = "str" THEN Go([d EXCEPT !.sessionKeyHash = v.v]) ELSE Go(d)
        ELSE IF k = T_version
        THEN LET e == VersionCheck(v) IN IF e # "" THEN Fail(e) ELSE Go(d)
        ELSE IF k = T_file_md5
        THEN IF v.t = "str" THEN Go([d EXCEPT !.expectedMD5Digest = v.v]) ELSE Go(d)
        ELSE Go(d)

(* lines 318-328: which unwrap is called, what it returns, and the list of *)
(* unwrap functions that were called, each with whether it failed         *)
Called(path, failed) == [path |-> path, failed |-> failed]

KeyPath(cfg, d) ==
    IF cfg.Password # Nil /\ d.encKey1Bytes # Nil THEN "password"
    ELSE IF cfg.PrivateKey # Nil /\ d.encKey2Bytes # Nil THEN "private_key"
    ELSE ""

(* lines 318-328 with the private key tried when the password path fails *)
UnwrapSessionKeyWithFallback(cfg, d) ==
    LET ByPrivateKey(before, r) ==
            IF r.err = ""
            THEN [err |-> "", key |-> r.data,
                  tried |-> before \o <<Called("private_key", FALSE)>>]
            ELSE [err |-> "failed to decrypt session key with private key",
                  key |-> Nil, tried |-> before \o <<Called("private_key", TRUE)>>]
        ByPassword(r) ==
            IF r.err = ""
            THEN [err |-> "", key |-> r.data, tried |-> <<Called("password", FALSE)>>]
            ELSE IF cfg.PrivateKey # Nil /\ d.encKey2Bytes # Nil
                 THEN ByPrivateKey(<<Called("password", TRUE)>>,
                                   DecryptWithPrivateKey(d.encKey2Bytes, cfg.PrivateKey))
            ELSE [err |-> "failed to decrypt session key with password",
                  key |-> Nil, tried |-> <<Called("password", TRUE)>>]
    IN  IF cfg.Password # Nil /\ d.encKey1Bytes # Nil
        THEN ByPassword(DecryptWithPassword(d.encKey1Bytes, cfg.Password, d.salt))
        ELSE IF cfg.PrivateKey # Nil /\ d.encKey2Bytes # Nil
        THEN ByPrivateKey(<< >>, DecryptWithPrivateKey(d.encKey2Bytes, cfg.PrivateKey))
        ELSE [err |-> "", key |-> d.sessionKey, tried |-> << >>]

UnwrapSessionKey(cfg, d) ==
    LET path == KeyPath(cfg, d)
        ByPassword(r) ==
            IF r.err = "" THEN [err |-> "", key |-> r.data, tried |-> <<Called(path, FALSE)>>]
            ELSE IF IsPanic(r.err)
                 THEN [err |-> r.err, key |-> Nil, tried |-> <<Called(path, TRUE)>>]
            ELSE [err |-> "failed to decrypt session key with password",
                  key |-> Nil, tried |-> <<Called(path, TRUE)>>]
        ByPrivateKey(r) ==
            IF r.err = "" THEN [err |-> "", key |-> r.data, tried |-> <<Called(path, FALSE)>>]
            ELSE [err |-> "failed to decrypt session key with private key",
                  key |-> Nil, tried |-> <<Called(path, TRUE)>>]
    IN  IF path = "password"
        THEN ByPassword(DecryptWithPassword(d.encKey1Bytes, cfg.Password, d.salt))
        ELSE IF path = "private_key"
        THEN ByPrivateKey(DecryptWithPrivateKey(d.encKey2Bytes, cfg.PrivateKey))
        ELSE [err |-> "", key |-> d.sessionKey, tried |-> << >>]

(* lines 334-347 *)
SessionKeyHashCheck(sessionKeyHash, sessionKey) ==
    IF sessionKeyHash # << >>
    THEN LET saltLen == IF Len(sessionKeyHash) > 10 THEN 10 ELSE Len(sessionKeyHash)
         IN  IF saltLen > 0
                /\ sessionKeyHash # SaltedHashOf(Slice(sessionKeyHash, 0, saltLen), sessionKey)
             THEN "session key hash mismatch"
             ELSE ""
    ELSE ""

(* lines 349-364: the key material that goes through the empty-salt KDF *)
DataKeyMaterial(salt, sessionKey) ==
    IF Len(salt) > 0
    THEN LET h == HexDecode(sessionKey)
         IN  IF h.err # "" THEN sessionKey ELSE Slice(h.data, 0, h.n)
    ELSE sessionKey

(* lines 316-371 without the test of lines 330-332: a nil session key is *)
(* used as the empty slice                                               *)
BuildDecryptorNoNilCheck(cfg, d) ==
    LET Key(u) == IF u.key = Nil THEN << >> ELSE u.key
        WithDecryptor(u, b) ==
            [err |-> "",
             d |-> [d EXCEPT !.sessionKey = u.key,
                             !.decryptor = [nil |-> FALSE, bm |-> b.bm]],
             tried |-> u.tried]
        Checked(u, e) ==
            IF e # ""
            THEN [err |-> e, d |-> [d EXCEPT !.sessionKey = u.key], tried |-> u.tried]
            ELSE WithDecryptor(u, DecryptorWithPassword(DataKeyMaterial(d.salt, Key(u)), << >>))
        Unwrapped(u) ==
            IF u.err # "" THEN [err |-> u.err, d |-> d, tried |-> u.tried]
            ELSE Checked(u, SessionKeyHashCheck(d.sessionKeyHash, Key(u)))
    IN  Unwrapped(UnwrapSessionKey(cfg, d))

(* lines 316-371: the first data chunk builds the decryptor *)
BuildDecryptor(cfg, d) ==
    LET WithDecryptor(u, b) ==
            [err |-> "",
             d |-> [d EXCEPT !.sessionKey = u.key,
                             !.decryptor = [nil |-> FALSE, bm |-> b.bm]],
             tried |-> u.tried]
        Checked(u, e) ==
            IF e # ""
            THEN [err |-> e, d |-> [d EXCEPT !.sessionKey = u.key], tried |-> u.tried]
            ELSE WithDecryptor(u, DecryptorWithPassword(DataKeyMaterial(d.salt, u.key), << >>))
        Unwrapped(u) ==
            IF u.err # "" THEN [err |-> u.err, d |-> d, tried |-> u.tried]
            ELSE IF u.key = Nil
                 THEN [err |-> "not enough information to decrypt data", d |-> d,
                       tried |-> u.tried]
            ELSE Checked(u, SessionKeyHashCheck(d.sessionKeyHash, u.key))
    IN  Unwrapped(UnwrapSessionKey(cfg, d))

(* blockDecryptor.Decrypt *)
Decrypt(decryptor, ciphertext) == CryptBlocks(decryptor.bm, ciphertext)

(* lines 314-379, passing on the chunk just decrypted and keeping the *)
(* one held back                                                     *)
HandleDataSwapped(cfg, d, md5, item) ==
    LET Decrypted(b, c) ==
            IF c.err # "" THEN Outcome(b.d, md5, c.err, b.d.decryptedChunk, b.tried)
            ELSE IF b.d.decryptedChunk = Nil
            THEN Outcome([b.d EXCEPT !.decryptedChunk = c.dst,
                                     !.decryptor = [nil |-> FALSE, bm |-> c.bm]],
                         md5, "", Nil, b.tried)
            ELSE Outcome([b.d EXCEPT !.decryptor = [nil |-> FALSE, bm |-> c.bm]],
                         md5, "", c.dst, b.tried)
        Built(b) ==
            IF b.err # "" THEN Outcome(b.d, md5, b.err, Nil, b.tried)
            ELSE Decrypted(b, Decrypt(b.d.decryptor, item.Data))
    IN  Built(IF d.decryptor.nil THEN BuildDecryptor(cfg, d)
              ELSE [err |-> "", d |-> d, tried |-> << >>])

(* lines 314-379, passing on each chunk as soon as it is decrypted *)
HandleDataEager(cfg, d, md5, item) ==
    LET Decrypted(b, c) ==
            IF c.err # "" THEN Outcome(b.d, md5, c.err, Nil, b.tried)
            ELSE Outcome([b.d EXCEPT !.decryptedChunk = c.dst,
                                     !.decryptor = [nil |-> FALSE, bm |-> c.bm]],
                         md5, "", c.dst, b.tried)
        Built(b) ==
            IF b.err # "" THEN Outcome(b.d, md5, b.err, Nil, b.tried)
            ELSE Decrypted(b, Decrypt(b.d.decryptor, item.Data))
    IN  Built(IF d.decryptor.nil THEN BuildDecryptor(cfg, d)
              ELSE [err |-> "", d |-> d, tried |-> << >>])

(* lines 314-379 without the test of line 316: the key is unwrapped and *)
(* the decryptor built at every data chunk                              *)
HandleDataRebuild(cfg, d, md5, item) ==
    LET Decrypted(b, c) ==
            IF c.err # "" THEN Outcome(b.d, md5, c.err, d.decryptedChunk, b.tried)
            ELSE Outcome([b.d EXCEPT !.decryptedChunk = c.dst,
                                     !.decryptor = [nil |-> FALSE, bm |-> c.bm]],
                         md5, "", d.decryptedChunk, b.tried)
        Built(b) ==
            IF b.err # "" THEN Outcome(b.d, md5, b.err, Nil, b.tried)
            ELSE Decrypted(b, Decrypt(b.d.decryptor, item.Data))
    IN  Built(BuildDecryptor(cfg, d))

(* lines 314-379: a data chunk *)
HandleData(cfg, d, md5, item) ==
    LET Decrypted(b, c) ==
            IF c.err # "" THEN Outcome(b.d, md5, c.err, b.d.decryptedChunk, b.tried)
            ELSE Outcome([b.d EXCEPT !.decryptedChunk = c.dst,
                                     !.decryptor = [nil |-> FALSE, bm |-> c.bm]],
                         md5, "", b.d.decryptedChunk, b.tried)
        Built(b) ==
            IF b.err # "" THEN Outcome(b.d, md5, b.err, Nil, b.tried)
            ELSE Decrypted(b, Decrypt(b.d.decryptor, item.Data))
    IN  Built(IF d.decryptor.nil THEN BuildDecryptor(cfg, d)
              ELSE [err |-> "", d |-> d, tried |-> << >>])

(* lines 220-400 without the check of item.Error at lines 222-224 *)
HandleItemIgnoreError(cfg, d, md5, item) ==
    IF item.Key # << >> THEN HandleHeader(cfg, d, md5, item)
    ELSE IF item.Data # Nil THEN HandleData(cfg, d, md5, item)
    ELSE Outcome(d, md5, "", Nil, << >>)

HandleItem(cfg, d, md5, item) ==
    IF item.Error # "" THEN Outcome(d, md5, item.Error, Nil, << >>)
    ELSE IF item.Key # << >> THEN HandleHeader(cfg, d, md5, item)
    ELSE IF item.Data # Nil THEN HandleData(cfg, d, md5, item)
    ELSE Outcome(d, md5, "", Nil, << >>)

(* lines 382-399: after the channel is closed *)
Finish(d) ==
    IF d.decryptedChunk # Nil
    THEN LET p == StripPKCS7Padding(d.decryptedChunk)
         IN  IF p.err = "" THEN [ret |-> "ok", write |-> p.data]
             ELSE IF IsPanic(p.err) THEN [ret |-> p.err, write |-> Nil]
             ELSE [ret |-> "failed to strip padding", write |-> Nil]
    ELSE [ret |-> "ok", write |-> Nil]

(* lines 391-397: the comparison of the running MD5 with file_md5 *)
DigestCompared(d, md5) == ~md5.nil /\ d.expectedMD5Digest # << >>

DigestMismatch(d, md5) ==
    DigestCompared(d, md5) /\ HexEncodeToString(MD5Sum(md5.data)) # d.expectedMD5Digest

(* lines 382-399 with `return err` on a digest mismatch *)
FinishResultStrict(d, md5) ==
    LET WithLast(f) ==
            [ret |-> IF f.ret = "ok" /\ DigestMismatch(d, md5) THEN "file md5 mismatch"
                     ELSE f.ret,
             write |-> f.write,
             digest |-> IF f.ret # "ok" \/ ~DigestCompared(d, md5) THEN "none"
                        ELSE IF DigestMismatch(d, md5) THEN "differs" ELSE "equal"]
    IN  WithLast(Finish(d))

(* lines 382-399: the result, the last write, and what the comparison of *)
(* lines 392-397 found ("none" when it is not made)                      *)
FinishResult(d, md5) ==
    LET WithLast(f) ==
            [ret |-> f.ret,
             write |-> f.write,
             digest |-> IF f.ret # "ok" \/ ~DigestCompared(d, md5) THEN "none"
                        ELSE IF DigestMismatch(d, md5) THEN "differs" ELSE "equal"]
    IN  WithLast(Finish(d))

(***************************************************************************)
(* The external program `lz4 -d`, reading frames on stdin and writing the  *)
(* decoded bytes to stdout.  Stand-in frame format: the magic number       *)
(* 04 22 4D 18, blocks of one length byte n > 0 followed by n bytes, and   *)
(* the end mark 0.  The program exits 0 when stdin ends at a frame         *)
(* boundary and non-zero on a bad magic number or a cut frame.             *)
(*   st: "frame" (a magic number or the end of input is expected) or       *)
(*       "block" (a block or the end mark is expected)                     *)
(*   The result says what the program does next with the bytes it has not  *)
(*   consumed: wait for more, consume n bytes (emitting out), or exit.     *)
(***************************************************************************)
Lz4Magic == <<4, 34, 77, 24>>

Lz4Next(st, avail, closed) ==
    LET Wait == [kind |-> "wait", n |-> 0, out |-> << >>, st |-> st, code |-> 0]
        Exit(c) == [kind |-> "exit", n |-> 0, out |-> << >>, st |-> st, code |-> c]
        Take(n, o, s2) == [kind |-> "take", n |-> n, out |-> o, st |-> s2, code |-> 0]
    IN  IF st = "frame"
        THEN IF Len(avail) >= 4
             THEN IF SubSeq(avail, 1, 4) = Lz4Magic THEN Take(4, << >>, "block") ELSE Exit(1)
             ELSE IF closed THEN (IF Len(avail) = 0 THEN Exit(0) ELSE Exit(1))
             ELSE Wait
        ELSE IF Len(avail) >= 1 /\ avail[1] = 0 THEN Take(1, << >>, "frame")
        ELSE IF Len(avail) >= 1 /\ Len(avail) >= 1 + avail[1]
             THEN Take(1 + avail[1], SubSeq(avail, 2, 1 + avail[1]), "block")
        ELSE IF closed THEN Exit(1)
        ELSE Wait

(***************************************************************************)
(* Inputs.  Containers are built with the inverse of each decoding step    *)
(* (the write side is not part of the repository).                         *)
(***************************************************************************)
PlainLen == 20

MinorMax == 2

EncLen2(n) == <<n \div 256, n % 256>>

EncStr(b) == <<16>> \o EncLen2(Len(b)) \o b

EncBytes(b) == <<17>> \o EncLen2(Len(b)) \o b

EncInt(n) == IF n = 0 THEN <<1, 0>> ELSE <<1, 1, n>>

RECURSIVE Flatten(_, _)
Flatten(ss, i) == IF i > Len(ss) THEN << >> ELSE ss[i] \o Flatten(ss, i + 1)

Pair(k, encodedValue) == EncStr(k) \o encodedValue

EncMap(pairs) == <<66>> \o Flatten(pairs, 1) \o <<64>>

Metadata(pairs) == EncMap(<<Pair(T_type, EncStr(T_metadata))>> \o pairs)

DataMap(chunk) == EncMap(<<Pair(T_type, EncStr(T_data)), Pair(T_data, EncBytes(chunk))>>)

VersionPair(major, minor) ==
    Pair(T_version, EncMap(<<Pair(T_major, EncInt(major)), Pair(T_minor, EncInt(minor))>>))

Preamble == MagicHeader \o HexOfMagic

(* the test suite's addPKCS7Padding *)
addPKCS7Padding(data) ==
    LET padding == 16 - (Len(data) % 16)
    IN  data \o [i \in 1..padding |-> padding]

RECURSIVE CBCEncryptBlocks(_, _, _, _)
CBCEncryptBlocks(key, prev, p, j) ==
    IF BlockSize * (j - 1) >= Len(p) THEN << >>
    ELSE LET c == Bytes([i \in 1..BlockSize |->
                           AESEncryptByte(key, i, Xor(p[BlockSize * (j - 1) + i], prev[i]))])
         IN  c \o CBCEncryptBlocks(key, c, p, j + 1)

CBCEncrypt(key, iv, p) == CBCEncryptBlocks(key, iv, p, 1)

EncryptWithPassword(plain, password, salt) ==
    LET WithKey(k) == CBCEncrypt(k.key, k.iv, addPKCS7Padding(plain))
    IN  WithKey(CSENCPBKDF(password, salt))

RSAEncryptOAEP(privateKey, msg) ==
    <<RSAKeyTag(privateKey)>> \o [i \in 1..Len(msg) |-> (msg[i] + privateKey[2]) % 256]

Base64EncodeChar(b, k) ==
    LET n == Len(b)
        g == (k - 1) \div 4
        r == (k - 1) % 4
        x == IF 3 * g + 1 <= n THEN b[3 * g + 1] ELSE 0
        y == IF 3 * g + 2 <= n THEN b[3 * g + 2] ELSE 0
        z == IF 3 * g + 3 <= n THEN b[3 * g + 3] ELSE 0
    IN  IF r = 0 THEN B64Char(x \div 4)
        ELSE IF r = 1 THEN B64Char((x % 4) * 16 + y \div 16)
        ELSE IF r = 2
             THEN (IF 3 * g + 2 > n THEN 61 ELSE B64Char((y % 16) * 4 + z \div 64))
        ELSE (IF 3 * g + 3 > n THEN 61 ELSE B64Char(z % 64))

Base64EncodeToString(b) ==
    Bytes([k \in 1..(4 * ((Len(b) + 2) \div 3)) |-> Base64EncodeChar(b, k)])

Lz4Frame(x) == Lz4Magic \o (IF Len(x) = 0 THEN << >> ELSE <<Len(x)>> \o x) \o <<0>>

PwGood == <<112, 119>>

PwWrong == <<119, 114, 111, 110, 103>>

PrivGood == <<48, 7, 9>>

PrivWrong == <<48, 8, 9>>

SaltText == <<97, 98>>

HashSalt == <<48, 49, 50, 51, 52, 53, 54, 55, 56, 57>>

MaterialRaw == <<11, 22, 33, 44>>

MaterialHexLike == <<97, 98, 49, 50>>

PlainShort == <<104, 105>>

PlainLong == Bytes([i \in 1..PlainLen |-> 64 + i])

SessionKeyOf(major, material) ==
    IF major = 3 THEN HexEncodeToString(material) ELSE material

EncKey1Text(pw, salt, sessionKey) ==
    Base64EncodeToString(EncryptWithPassword(sessionKey, pw, salt))

EncKey2Text(priv, sessionKey) == Base64EncodeToString(RSAEncryptOAEP(priv, sessionKey))

(* the data stream: the padded frame under KDF(material, empty salt) *)
CipherStream(material, frame) ==
    LET WithKey(k) == CBCEncrypt(k.key, k.iv, addPKCS7Padding(frame))
    IN  WithKey(OpenSSLKDF(material, << >>, aesKeySizeBits \div 8, aesIVLengthBytes))

(* the data maps of a cipher stream, the first chunk one block long *)
DataMaps(stream, nchunks) ==
    IF nchunks = 1 \/ Len(stream) <= BlockSize THEN DataMap(stream)
    ELSE DataMap(SubSeq(stream, 1, BlockSize))
         \o DataMap(SubSeq(stream, BlockSize + 1, Len(stream)))

(***************************************************************************)
(* Scenarios: an input file, a DecryptConfig and the behaviour of the      *)
(* output sink.  wellFormed marks a complete valid container given with    *)
(* its password, plain is its plaintext, and validLen is the length of the *)
(* valid container the input is a prefix of (0 when it is none).           *)
(***************************************************************************)
Scn(kind, data, pw, priv) ==
    [kind |-> kind, data |-> data, failAt |-> -1, Password |-> pw, PrivateKey |-> priv,
     sinkFails |-> FALSE, wellFormed |-> FALSE, plain |-> << >>, validLen |-> 0]

Valid(data, plain) ==
    [Scn("valid", data, PwGood, Nil) EXCEPT !.wellFormed = TRUE, !.plain = plain,
                                            !.validLen = Len(data)]

SaltPair(salt, asBytes) ==
    Pair(T_salt, IF asBytes THEN EncBytes(salt) ELSE EncStr(salt))

KeyHashPair(pw) == Pair(T_key1_hash, EncStr(SaltedHashOf(HashSalt, pw)))

EncKey1Pair(pw, salt, sessionKey) ==
    Pair(T_enc_key1, EncStr(EncKey1Text(pw, salt, sessionKey)))

EncKey2Pair(priv, sessionKey) == Pair(T_enc_key2, EncStr(EncKey2Text(priv, sessionKey)))

(* version and salt, then the wrapped key, then the data maps; a rich     *)
(* container also carries digest, key1_hash, session_key_hash and a       *)
(* trailing file_md5                                                      *)
ValidContainer(major, salt, saltAsBytes, material, plain, nchunks, rich) ==
    LET sk == SessionKeyOf(major, material)
    IN  Preamble
        \o Metadata(<<VersionPair(major, 0), SaltPair(salt, saltAsBytes)>>
                    \o IF rich THEN <<Pair(T_digest, EncStr(T_md5))>> ELSE << >>)
        \o Metadata(<<EncKey1Pair(PwGood, salt, sk)>>
                    \o IF rich
                       THEN <<KeyHashPair(PwGood),
                              Pair(T_session_key_hash, EncStr(SaltedHashOf(HashSalt, sk)))>>
                       ELSE << >>)
        \o DataMaps(CipherStream(material, Lz4Frame(plain)), nchunks)
        \o IF rich
           THEN Metadata(<<Pair(T_file_md5, EncStr(HexEncodeToString(MD5Sum(plain))))>>)
           ELSE << >>

ValidRich == ValidContainer(1, << >>, FALSE, MaterialRaw, PlainShort, 1, TRUE)

ValidPlain == ValidContainer(1, << >>, FALSE, MaterialRaw, PlainLong, 2, FALSE)

ValidScenarios ==
    << Valid(ValidRich, PlainShort),
       Valid(ValidPlain, PlainLong),
       Valid(ValidContainer(3, SaltText, FALSE, MaterialRaw, PlainLong, 2, FALSE), PlainLong),
       Valid(ValidContainer(3, << >>, FALSE, MaterialRaw, PlainShort, 1, FALSE), PlainShort),
       Valid(ValidContainer(1, SaltText, FALSE, MaterialRaw, PlainShort, 1, FALSE), PlainShort),
       Valid(ValidContainer(1, SaltText, FALSE, MaterialHexLike, PlainShort, 1, FALSE),
             PlainShort),
       [Valid(ValidContainer(1, SaltText, TRUE, MaterialRaw, PlainShort, 1, FALSE), PlainShort)
           EXCEPT !.kind = "salt_bytes", !.wellFormed = FALSE],
       Valid(ValidContainer(1, << >>, FALSE, MaterialRaw, << >>, 1, FALSE), << >>),
       [Valid(ValidRich, PlainShort) EXCEPT !.kind = "sink", !.sinkFails = TRUE] >>

(* every proper prefix of a valid container that is longer than the preamble *)
CutScenarios ==
    << >> \o
    [i \in 1..(Len(ValidPlain) - Len(Preamble) - 1) |->
        [Scn("cut", SubSeq(ValidPlain, 1, Len(Preamble) + i), PwGood, Nil)
            EXCEPT !.validLen = Len(ValidPlain)]]

(* a valid container behind a reader that fails from offset i on: in the *)
(* preamble, at a tag byte, in a length field, in a payload, at the end  *)
IoScenarios ==
    << >> \o
    [j \in 1..(Len(ValidPlain) + 1) |->
        [Scn("ioerr", ValidPlain, PwGood, Nil) EXCEPT !.failAt = j - 1]]

(* which wrapped keys the container carries, and where *)
ShortData == DataMaps(CipherStream(MaterialRaw, Lz4Frame(PlainShort)), 1)

K1 == Metadata(<<EncKey1Pair(PwGood, << >>, MaterialRaw)>>)

K2 == Metadata(<<EncKey2Pair(PrivGood, MaterialRaw)>>)

KeyContainers ==
    << Preamble \o ShortData,
       Preamble \o K1 \o ShortData,
       Preamble \o K2 \o ShortData,
       Preamble \o K1 \o K2 \o ShortData,
       Preamble \o ShortData \o K1 \o K2,
       Preamble \o K2 \o ShortData \o K1 >>

Configs ==
    << <<PwGood, Nil>>, <<Nil, PrivGood>>, <<PwGood, PrivGood>>, <<Nil, Nil>>,
       <<PwWrong, Nil>>, <<PwWrong, PrivGood>>, <<Nil, PrivWrong>>, <<Nil, <<1, 2>> >> >>

KeyScenarios ==
    << >> \o
    [i \in 1..(Len(KeyContainers) * Len(Configs)) |->
        LET c == ((i - 1) \div Len(Configs)) + 1
            g == ((i - 1) % Len(Configs)) + 1
        IN  Scn("keys", KeyContainers[c], Configs[g][1], Configs[g][2])]

(* key1_hash of the right password, given with the wrong one *)
HashScenarios ==
    LET k1 == EncKey1Pair(PwGood, << >>, MaterialRaw)
        kh == KeyHashPair(PwGood)
        together == Preamble \o Metadata(<<k1, kh>>) \o ShortData
        keyFirst == Preamble \o Metadata(<<k1>>) \o Metadata(<<kh>>) \o ShortData
        hashFirst == Preamble \o Metadata(<<kh>>) \o Metadata(<<k1>>) \o ShortData
    IN  << Scn("hash", together, PwWrong, Nil),
           Scn("hash", keyFirst, PwWrong, Nil),
           Scn("hash", hashFirst, PwWrong, Nil),
           Scn("hash", together, PwWrong, PrivGood),
           Scn("hash", together, PwGood, Nil),
           Scn("hash", together, Nil, PrivGood) >>

(* digest md5 first and a trailing file_md5: the MD5 of nothing, of the *)
(* plaintext, and a text that is no MD5 of either                       *)
DigestContainer(md5text) ==
    Preamble \o Metadata(<<Pair(T_digest, EncStr(T_md5))>>) \o K1 \o ShortData
    \o Metadata(<<Pair(T_file_md5, EncStr(md5text))>>)

DigestScenarios ==
    << Scn("md5", DigestContainer(HexEncodeToString(MD5Sum(<< >>))), PwGood, Nil),
       Scn("md5", DigestContainer(HexEncodeToString(MD5Sum(PlainShort))), PwGood, Nil),
       Scn("md5", DigestContainer(<<48, 48>>), PwGood, Nil) >>

(* version headers before, between and after the data maps *)
LongStream == CipherStream(MaterialRaw, Lz4Frame(PlainLong))

VersionOnly(major, minor) == Metadata(<<VersionPair(major, minor)>>)

VersionAt(where, v) ==
    Preamble \o (IF where = 1 THEN v ELSE << >>) \o K1
    \o DataMap(SubSeq(LongStream, 1, BlockSize))
    \o (IF where = 2 THEN v ELSE << >>)
    \o DataMap(SubSeq(LongStream, BlockSize + 1, Len(LongStream)))
    \o (IF where = 3 THEN v ELSE << >>)

Majors == <<0, 1, 2, 3, 4>>

VersionGrid ==
    << >> \o
    [i \in 1..(3 * Len(Majors) * (MinorMax + 1)) |->
        LET where == ((i - 1) % 3) + 1
            j == (i - 1) \div 3
            major == Majors[(j % Len(Majors)) + 1]
            minor == j \div Len(Majors)
        IN  Scn("version", VersionAt(where, VersionOnly(major, minor)), PwGood, Nil)]

(* a version without minor, without major, not a map, with a text major *)
VersionOdd ==
    << Metadata(<<Pair(T_version, EncMap(<<Pair(T_major, EncInt(2))>>))>>),
       Metadata(<<Pair(T_version, EncMap(<<Pair(T_minor, EncInt(0))>>))>>),
       Metadata(<<Pair(T_version, EncStr(<<50>>))>>),
       Metadata(<<Pair(T_version,
                       EncMap(<<Pair(T_major, EncStr(<<50>>)),
                                Pair(T_minor, EncInt(0))>>))>>) >>

VersionScenarios ==
    VersionGrid
    \o [i \in 1..Len(VersionOdd) |-> Scn("version", VersionAt(1, VersionOdd[i]), PwGood, Nil)]

(* preambles cut short or altered, and the bare preamble *)
AlteredPreamble(i, b) == [Preamble EXCEPT ![i] = b] \o K1 \o ShortData

UpperHex(c) == IF c >= 97 THEN c - 32 ELSE c

PreambleCuts == <<0, 1, 16, 17, 18, 48>>

PreambleScenarios ==
    [i \in 1..Len(PreambleCuts) |->
        Scn("preamble", SubSeq(ValidPlain, 1, PreambleCuts[i]), PwGood, Nil)]
    \o << Scn("preamble", AlteredPreamble(3, 99), PwGood, Nil),
          Scn("preamble", AlteredPreamble(20, IF Preamble[20] = 48 THEN 49 ELSE 48),
              PwGood, Nil),
          Scn("preamble", AlteredPreamble(49, IF Preamble[49] = 48 THEN 49 ELSE 48),
              PwGood, Nil),
          Scn("preamble",
              MagicHeader \o [i \in 1..32 |-> UpperHex(HexOfMagic[i])] \o K1 \o ShortData,
              PwGood, Nil),
          Scn("preamble", Preamble, PwGood, Nil) >>

(* decrypted streams that are not a frame lz4 accepts *)
BadFrame(frame, n) == Preamble \o K1 \o DataMaps(CipherStream(MaterialRaw, frame), n)

Lz4Scenarios ==
    << Scn("lz4", BadFrame(<<9, 9, 9, 9>> \o <<2>> \o PlainShort \o <<0>>, 1), PwGood, Nil),
       Scn("lz4", BadFrame(Lz4Magic \o <<2>> \o PlainShort, 1), PwGood, Nil),
       Scn("lz4", BadFrame(<<9, 9, 9, 9>> \o <<PlainLen>> \o PlainLong \o <<0>>, 2),
           PwGood, Nil) >>

(* ciphertexts whose length is not a multiple of the AES block size: a *)
(* data chunk of 5 bytes, one of 17 bytes after a whole chunk, and an  *)
(* enc_key1 of 5 bytes                                                 *)
OddLengthScenarios ==
    << Scn("badlen", Preamble \o K1 \o DataMap(<<1, 2, 3, 4, 5>>), PwGood, Nil),
       Scn("badlen", Preamble \o K1 \o DataMap(SubSeq(LongStream, 1, BlockSize))
                     \o DataMap(SubSeq(LongStream, BlockSize + 1, 2 * BlockSize) \o <<7>>),
           PwGood, Nil),
       Scn("badlen", Preamble
                     \o Metadata(<<Pair(T_enc_key1,
                                        EncStr(Base64EncodeToString(<<1, 2, 3, 4, 5>>)))>>)
                     \o ShortData,
           PwGood, Nil) >>

(* version 3 containers whose session key is not hex text ("abc" has an *)
(* odd length, "xyzw" no hex digit), with and without a salt; the data  *)
(* is encrypted under the key derived from that text as it stands       *)
BadHexContainer(salt, sk) ==
    Preamble
    \o Metadata(<<VersionPair(3, 0), SaltPair(salt, FALSE)>>)
    \o Metadata(<<EncKey1Pair(PwGood, salt, sk)>>)
    \o DataMaps(CipherStream(sk, Lz4Frame(PlainShort)), 1)

BadHexScenarios ==
    << Scn("badhex", BadHexContainer(SaltText, <<97, 98, 99>>), PwGood, Nil),
       Scn("badhex", BadHexContainer(SaltText, <<120, 121, 122, 119>>), PwGood, Nil),
       Scn("badhex", BadHexContainer(<< >>, <<97, 98, 99>>), PwGood, Nil) >>

(* between the two data chunks: another salt, another enc_key1, an *)
(* enc_key2 and a session_key_hash of another key                   *)
LateHeaders ==
    Metadata(<<SaltPair(SaltText, FALSE)>>)
    \o Metadata(<<EncKey1Pair(PwGood, SaltText, MaterialHexLike),
                  EncKey2Pair(PrivGood, MaterialHexLike)>>)
    \o Metadata(<<Pair(T_session_key_hash,
                       EncStr(SaltedHashOf(HashSalt, MaterialHexLike)))>>)

LateScenarios ==
    << Scn("late", Preamble \o K1 \o DataMap(SubSeq(LongStream, 1, BlockSize))
                   \o LateHeaders
                   \o DataMap(SubSeq(LongStream, BlockSize + 1, Len(LongStream))),
           PwGood, Nil) >>

(* session_key_hash values: with a prefix of 3, of 10 and of 12         *)
(* characters, the empty text, and the hash of another key             *)
SessionKeyHashContainer(v) ==
    Preamble \o K1 \o Metadata(<<Pair(T_session_key_hash, EncStr(v))>>) \o ShortData

SessionKeyHashScenarios ==
    << Scn("skhash", SessionKeyHashContainer(SaltedHashOf(<<97, 98, 99>>, MaterialRaw)),
           PwGood, Nil),
       Scn("skhash", SessionKeyHashContainer(SaltedHashOf(HashSalt, MaterialRaw)),
           PwGood, Nil),
       Scn("skhash", SessionKeyHashContainer(SaltedHashOf(HashSalt \o <<97, 98>>, MaterialRaw)),
           PwGood, Nil),
       Scn("skhash", SessionKeyHashContainer(<< >>), PwGood, Nil),
       Scn("skhash", SessionKeyHashContainer(SaltedHashOf(HashSalt, MaterialHexLike)),
           PwGood, Nil) >>

(* a header of a known key whose value is not of the expected kind: *)
(* file_md5 and key1_hash as byte strings, session_key_hash as an    *)
(* integer, version as a text                                        *)
VariantContainer(pair) == Preamble \o K1 \o Metadata(<<pair>>) \o ShortData

VariantScenarios ==
    << Scn("variant", VariantContainer(Pair(T_file_md5, EncBytes(<<48, 48>>))), PwGood, Nil),
       Scn("variant", VariantContainer(Pair(T_key1_hash,
                                            EncBytes(SaltedHashOf(HashSalt, PwGood)))),
           PwGood, Nil),
       Scn("variant", VariantContainer(Pair(T_session_key_hash, EncInt(7))), PwGood, Nil),
       Scn("variant", VariantContainer(Pair(T_version, EncStr(<<51>>))), PwGood, Nil) >>

(* a byte that is no type tag where a tag is expected: at top level, as *)
(* a key of a map, as a value of a map, inside the map that is the      *)
(* value of version; a file_md5 header and a data map follow            *)
TagTail == Metadata(<<Pair(T_file_md5, EncStr(<<48, 48>>))>>) \o ShortData

TagContainers ==
    << Preamble \o K1 \o <<153>> \o TagTail,
       Preamble \o K1 \o <<66, 5>> \o <<64>> \o TagTail,
       Preamble \o K1 \o <<66>> \o EncStr(T_type) \o <<127>> \o <<64>> \o TagTail,
       Preamble \o K1 \o <<66>> \o Pair(T_type, EncStr(T_metadata))
           \o EncStr(T_version) \o <<66>> \o Pair(T_major, <<2, 1, 1>>) \o <<64, 64>>
           \o TagTail,
       Preamble \o K1 \o <<0>> \o TagTail >>

TagScenarios ==
    [i \in 1..Len(TagContainers) |-> Scn("tag", TagContainers[i], PwGood, Nil)]

(* a data map whose chunk has no bytes; an enc_key1 header whose text is *)
(* empty                                                                 *)
EmptyScenarios ==
    << Scn("empty", Preamble \o K1 \o DataMap(<< >>), PwGood, Nil),
       Scn("empty", Preamble \o Metadata(<<Pair(T_enc_key1, EncStr(<< >>))>>) \o ShortData,
           PwGood, Nil) >>

Scenarios ==
    ValidScenarios \o CutScenarios \o KeyScenarios \o HashScenarios
    \o VersionScenarios \o PreambleScenarios \o Lz4Scenarios \o DigestScenarios
    \o IoScenarios \o OddLengthScenarios
    \o BadHexScenarios \o LateScenarios
    \o SessionKeyHashScenarios \o VariantScenarios
    \o TagScenarios \o EmptyScenarios

(***************************************************************************)
(* The state of one DecryptStream call                                     *)
(***************************************************************************)
(* File names (package files and the CLI).  Paths are byte strings; 46   *)
(* is '.', 47 is the path separator.                                      *)
(***************************************************************************)
(* strings.ToLower on ASCII *)
ToLower(t) == Bytes([i \in 1..Len(t) |-> IF t[i] \in 65..90 THEN t[i] + 32 ELSE t[i]])

(* the last index of byte c in t[1..n], 0 if there is none *)
RECURSIVE LastIndexByte(_, _, _)
LastIndexByte(t, n, c) ==
    IF n = 0 THEN 0 ELSE IF t[n] = c THEN n ELSE LastIndexByte(t, n - 1, c)

RECURSIVE TrimSeparators(_)
TrimSeparators(path) ==
    IF path # << >> /\ path[Len(path)] = 47
    THEN TrimSeparators(SubSeq(path, 1, Len(path) - 1))
    ELSE path

(* filepath.Base *)
Base(path) ==
    IF path = << >> THEN <<46>>
    ELSE LET WithTrimmed(t) ==
                 IF t = << >> THEN <<47>>
                 ELSE SubSeq(t, LastIndexByte(t, Len(t), 47) + 1, Len(t))
         IN  WithTrimmed(TrimSeparators(path))

(* filepath.Ext *)
Ext(path) ==
    IF LastIndexByte(path, Len(path), 46) > LastIndexByte(path, Len(path), 47)
    THEN SubSeq(path, LastIndexByte(path, Len(path), 46), Len(path))
    ELSE << >>

(* filepath.Join of two clean elements *)
Join(dir, elem) ==
    IF elem = << >> THEN dir ELSE IF dir = << >> THEN elem ELSE dir \o <<47>> \o elem

Ext_cse == <<46, 99, 115, 101>>
Ext_enc == <<46, 101, 110, 99>>
Ext_cloudsync == <<46, 99, 108, 111, 117, 100, 115, 121, 110, 99>>
Ext_csenc == <<46, 99, 115, 101, 110, 99>>
Suffix_decrypted == <<46, 100, 101, 99, 114, 121, 112, 116, 101, 100>>

(* name[:len(name)-len(ext)] *)
TrimExt(name, ext) == Slice(name, 0, Len(name) - Len(ext))

(* part_001 lines 214-223 *)
isEncryptedExtension(ext) == ToLower(ext) \in {Ext_cse, Ext_enc, Ext_cloudsync, Ext_csenc}

(* part_001 lines 201-211 *)
generateOutputFileName(inputFile, outputDir) ==
    LET baseName == Base(inputFile)
    IN  Join(outputDir, IF isEncryptedExtension(Ext(baseName))
                        THEN TrimExt(baseName, Ext(baseName))
                        ELSE baseName)

(* part_003 lines 62-68: the output file of DecryptFiles *)
DecryptFilesOutputFile(inputFile, outputDir) ==
    LET baseName == Base(inputFile)
    IN  IF Ext(baseName) \in {Ext_cse, Ext_enc}
        THEN Join(outputDir, TrimExt(baseName, Ext(baseName)))
        ELSE Join(outputDir, baseName)

(* part_003 lines 101-106: the output path of DecryptDirectory *)
DecryptDirectoryOutputPath(relPath, outputDir) ==
    LET outputPath == Join(outputDir, relPath)
    IN  IF Ext(outputPath) \in {Ext_cse, Ext_enc}
        THEN TrimExt(outputPath, Ext(outputPath))
        ELSE outputPath

(* part_003 lines 226-229 *)
IsEncryptedFile(filename) == Ext(filename) \in {Ext_cse, Ext_enc, Ext_cloudsync}

(* part_003 lines 232-243 *)
GenerateOutputFilename(inputFile) ==
    LET baseName == Base(inputFile)
    IN  IF Ext(baseName) \in {Ext_cse, Ext_enc, Ext_cloudsync}
        THEN TrimExt(baseName, Ext(baseName))
        ELSE baseName \o Suffix_decrypted

(* the files of a batch: names with each encrypted extension, in lower  *)
(* and in upper case, with another extension and with none, in a folder *)
MaxFiles == 2

OutDir == <<111, 117, 116>>

Names ==
    { <<97>> \o Ext_cse, <<97, 46, 67, 83, 69>>, <<98>> \o Ext_enc, <<98, 46, 69, 110, 99>>,
      <<99>> \o Ext_cloudsync, <<100>> \o Ext_csenc,
      <<101, 46, 116, 120, 116>>, <<102>>, <<103, 47, 97>> \o Ext_cse, <<97, 46, 98>> \o Ext_cse }

FileLists == UNION {[1..n -> Names] : n \in 1..MaxFiles}

Entries == {"DecryptFiles", "DecryptDirectory", "BatchDecrypt", "main"}

NoTool ==
    [entry |-> "none", pc |-> "none", files |-> << >>, fails |-> {}, idx |-> 0,
     results |-> << >>, ret |-> "", names |-> << >>]

(* a batch call: the files, and those of them DecryptFile fails on *)
BatchCall(entry, files, fails) ==
    [NoTool EXCEPT !.entry = entry, !.pc = "loop", !.files = files, !.fails = fails,
                   !.idx = 1]

ToolInputs ==
    {BatchCall(e, fs, fl) : e \in Entries, fs \in FileLists, fl \in SUBSET (1..MaxFiles)}
    \cup {[NoTool EXCEPT !.entry = "names", !.pc = "loop", !.files = <<f>>] : f \in Names}

(* DecryptResult, as far as the loops fill it in *)
Result(inputFile, outputFile, success) ==
    [InputFile |-> inputFile, OutputFile |-> outputFile, Success |-> success]

(***************************************************************************)
VARIABLES
    tool,         \* a batch entry point of package files or of the CLI: its loop
    scn,          \* the scenario: the reader, the configuration, the faults
    drvPc,        \* DecryptStreamWithFilename: "init", "loop", "close", "wait", "returned"
    retval,       \* the error it returns: "" while undecided, "ok" for nil
    drv,          \* its local variables
    md5Digestor,  \* the digest shared with the decompressed-chunk handler
    decPc,        \* decoder goroutine: "none", "read", "range", "send", "closed"
    decPos,       \* offset of the input reader
    decDict,      \* the metadata map being ranged over
    decLeft,      \* its keys not sent yet
    decItem,      \* the data or error item being sent
    lzPc,         \* lz4 process: "none", "run", "exited"
    lzSt,         \* its parser state
    lzCode,       \* its exit status
    stdinBuf,     \* bytes in its stdin pipe
    stdinClosed,  \* the write end of stdin is closed
    pipe,         \* bytes in its stdout pipe
    pipeClosed,   \* the read end of stdout is closed (by cmd.Wait)
    rdPc,         \* readOutput goroutine: "none", "read", "handle", "done"
    rdBuf,        \* buffer[:n] of its last Read
    isClosed,     \* Lz4Decompressor.isClosed
    output,       \* bytes the output sink holds
    hist          \* history: what has happened so far

decVars == <<decPc, decPos, decDict, decLeft, decItem>>

drvVars == <<drvPc, retval, drv>>

lzVars == <<lzPc, lzSt, lzCode, stdinBuf, pipe>>

rdVars == <<rdPc, rdBuf>>

callVars == <<scn, drvVars, md5Digestor, decVars, lzVars, stdinClosed, pipeClosed,
              rdVars, isClosed, output, hist>>

vars == <<tool, callVars>>

S == scn

Reader == [data |-> S.data, failAt |-> S.failAt]

Config == [Password |-> S.Password, PrivateKey |-> S.PrivateKey]

NoItem == StreamItem(<< >>, VNull, Nil, "")

HistoryInit ==
    [items |-> 0,          \* items received by the driver
     headers |-> {},       \* keys of the text-valued header items received
     data |-> 0,           \* data items received
     firstData |-> "none", \* at the first data item, by the headers received before it:
                           \* "password", "private_key" or "fail"
     tried |-> << >>,      \* key-unwrap functions called, each with whether it failed
     cipher |-> << >>,     \* the data items received, in order
     chunks |-> << >>,     \* what each of them was decrypted to
     writes |-> << >>,     \* the arguments of the calls of decompressor.Write, in order
     fed |-> << >>,        \* bytes accepted by the decompressor's stdin
     lzOut |-> << >>,      \* bytes lz4 has written to its stdout
     stdinErr |-> FALSE,   \* a decompressor.Write has failed
     sinkErr |-> FALSE,    \* an output.Write has failed
     lateWrite |-> FALSE,  \* the handler has run after DecryptStream returned
     reported |-> FALSE,   \* readOutput has printed a read error
     twinDrv |-> DriverInit, \* the driver's locals in the twin run, which receives the
                           \* same items with another file_md5 value
     twinSame |-> TRUE,    \* so far the twin run has returned and written the same
     digest |-> "none",    \* the comparison with file_md5: "none", "equal", "differs"
     major |-> Nil,        \* the last version item: its major, when major and minor are ints
     version |-> "none"]   \* the last version item: "none", or what it made the driver do

NotCalled ==
    /\ drvPc = "init" /\ retval = "" /\ drv = DriverInit /\ md5Digestor = NilDigest
    /\ decPc = "none" /\ decPos = 0 /\ decDict = EmptyMap /\ decLeft = {} /\ decItem = NoItem
    /\ lzPc = "none" /\ lzSt = "frame" /\ lzCode = 0 /\ stdinBuf = << >> /\ pipe = << >>
    /\ stdinClosed = FALSE /\ pipeClosed = FALSE
    /\ rdPc = "none" /\ rdBuf = << >> /\ isClosed = FALSE
    /\ output = << >>
    /\ hist = HistoryInit

Init ==
    /\ scn \in {Scenarios[i] : i \in 1..Len(Scenarios)}
    /\ tool = NoTool
    /\ NotCalled

(* a panic that nothing recovers ends the process, goroutines included *)
Crashed == drvPc = "returned" /\ IsPanic(retval)

(* lines 207-222: DecodeCSEncStream validates the preamble and starts the *)
(* decoder goroutine; NewLz4DecompressorWithFilename starts lz4 and the   *)
(* readOutput goroutine                                                   *)
Start ==
    /\ drvPc = "init"
    /\ LET v == ValidateHeader(Reader)
       IN  IF v.err # ""
           THEN /\ drvPc' = "returned"
                /\ retval' = "failed to decode stream"
                /\ UNCHANGED <<decVars, lzVars, rdVars>>
           ELSE /\ drvPc' = "loop"
                /\ decPc' = "read" /\ decPos' = v.pos
                /\ lzPc' = "run"
                /\ rdPc' = "read"
                /\ UNCHANGED <<retval, decDict, decLeft, decItem, lzSt, lzCode, stdinBuf,
                               pipe, rdBuf>>
    /\ UNCHANGED <<tool, scn, drv, md5Digestor, stdinClosed, pipeClosed, isClosed, output, hist>>

(* the decoder goroutine reads the next top-level object (lines 193-229) *)
DecoderRead ==
    /\ decPc = "read" /\ ~Crashed
    /\ LET Send(item) == /\ decPc' = "send" /\ decItem' = item
                         /\ UNCHANGED <<decDict, decLeft>>
           Again == UNCHANGED <<decPc, decDict, decLeft, decItem>>
           Decoded(o) ==
           /\ decPos' = o.pos
           /\ IF o.err = "EOF"
              THEN decPc' = "closed" /\ UNCHANGED <<decDict, decLeft, decItem>>
              ELSE IF o.err # "" THEN Send(StreamItem(<< >>, VNull, Nil, o.err))
              ELSE IF o.val.t = "null" THEN Again
              ELSE IF o.val.t # "map"
                   THEN Send(StreamItem(<< >>, VNull, Nil, "expected dictionary object"))
              ELSE IF ~(T_type \in DOMAIN o.val.v /\ o.val.v[T_type].t = "str")
                   THEN Send(StreamItem(<< >>, VNull, Nil, "missing type field"))
              ELSE IF o.val.v[T_type].v = T_metadata
                   THEN IF DOMAIN o.val.v = {T_type} THEN Again
                        ELSE /\ decPc' = "range"
                             /\ decDict' = o.val.v
                             /\ decLeft' = DOMAIN o.val.v \ {T_type}
                             /\ UNCHANGED decItem
              ELSE IF o.val.v[T_type].v = T_data
                      /\ T_data \in DOMAIN o.val.v /\ o.val.v[T_data].t = "bytes"
                   THEN Send(StreamItem(<< >>, VNull, o.val.v[T_data].v, ""))
              ELSE Again
       IN  Decoded(ReadObject(Reader, decPos))
    /\ UNCHANGED <<tool, scn, drvVars, md5Digestor, lzVars, stdinClosed, pipeClosed,
                   rdVars, isClosed, output, hist>>

(* Lz4Decompressor.Write: bytes enter the stdin pipe unless lz4 has exited *)
DecompressorWrite(data, now) ==
    IF data = Nil THEN /\ stdinBuf' = stdinBuf
                       /\ hist' = now
    ELSE IF lzPc = "exited" THEN /\ stdinBuf' = stdinBuf
                                 /\ hist' = [now EXCEPT !.stdinErr = TRUE,
                                                        !.writes = Append(@, data)]
    ELSE /\ stdinBuf' = stdinBuf \o data
         /\ hist' = [now EXCEPT !.fed = @ \o data, !.writes = Append(@, data)]

(* what the history keeps of a received item *)
Record(item, o) ==
    LET expected == IF Config.Password # Nil /\ T_enc_key1 \in hist.headers
                    THEN "password"
                    ELSE IF Config.PrivateKey # Nil /\ T_enc_key2 \in hist.headers
                    THEN "private_key"
                    ELSE "fail"
        isVersion == item.Error = "" /\ item.Key = T_version
        typed == /\ item.Value.t = "map"
                 /\ T_major \in DOMAIN item.Value.v /\ item.Value.v[T_major].t = "int"
                 /\ T_minor \in DOMAIN item.Value.v /\ item.Value.v[T_minor].t = "int"
        isData == item.Error = "" /\ item.Key = << >> /\ item.Data # Nil
        isText == item.Error = "" /\ item.Key # << >> /\ item.Value.t = "str"
    IN  [hist EXCEPT !.items = @ + 1,
                  !.headers = IF isText THEN @ \cup {item.Key} ELSE @,
                  !.data = IF isData THEN @ + 1 ELSE @,
                  !.cipher = IF isData THEN Append(@, item.Data) ELSE @,
                  !.chunks = IF isData /\ o.ret = "" THEN Append(@, o.chunk) ELSE @,
                  !.firstData = IF isData /\ @ = "none" THEN expected ELSE @,
                  !.tried = @ \o o.tried,
                  !.major = IF isVersion
                            THEN (IF typed THEN item.Value.v[T_major].v ELSE Nil) ELSE @,
                  !.version = IF isVersion
                              THEN (IF o.ret = "" THEN "accepted" ELSE o.ret) ELSE @]

(* the item the twin run receives: another text for file_md5 *)
AlterText(t) == IF t = << >> THEN <<48>> ELSE <<IF t[1] = 48 THEN 49 ELSE 48>> \o Tail(t)

Twin(item) ==
    IF item.Error = "" /\ item.Key = T_file_md5 /\ item.Value.t = "str"
    THEN [item EXCEPT !.Value = VStr(AlterText(item.Value.v))]
    ELSE item

(* the twin run differs from the run in expectedMD5Digest at most *)
SameButFileMD5(a, b) ==
    [a EXCEPT !.expectedMD5Digest = << >>] = [b EXCEPT !.expectedMD5Digest = << >>]

(* one iteration of `for item := range ch` (lines 226-380) *)
Receive(item) ==
    LET Handled(o, t) ==
            /\ drv' = o.d
            /\ md5Digestor' = o.md5
            /\ DecompressorWrite(o.write,
                                 [Record(item, [ret |-> o.ret, tried |-> o.path,
                                                chunk |-> o.d.decryptedChunk])
                                     EXCEPT !.twinDrv = t.d,
                                            !.twinSame = /\ @
                                                         /\ t.ret = o.ret
                                                         /\ t.write = o.write
                                                         /\ t.md5 = o.md5
                                                         /\ SameButFileMD5(t.d, o.d)])
            /\ IF o.ret = "" THEN UNCHANGED <<drvPc, retval>>
               ELSE drvPc' = "close" /\ retval' = o.ret
    IN  Handled(HandleItem(Config, drv, md5Digestor, item),
                HandleItem(Config, hist.twinDrv, md5Digestor, Twin(item)))

ReceiveHeader ==
    /\ drvPc = "loop" /\ decPc = "range"
    /\ \E k \in decLeft :
          /\ Receive(StreamItem(k, decDict[k], Nil, ""))
          /\ decLeft' = decLeft \ {k}
          /\ decPc' = IF decLeft = {k} THEN "read" ELSE "range"
    /\ UNCHANGED <<tool, scn, decPos, decDict, decItem, lzPc, lzSt, lzCode, pipe, stdinClosed,
                   pipeClosed, rdVars, isClosed, output>>

(* the goroutine going on with the loop after it has sent an error item *)
ReceiveItemNoReturn ==
    /\ drvPc = "loop" /\ decPc = "send"
    /\ Receive(decItem)
    /\ decPc' = "read"
    /\ UNCHANGED <<tool, scn, decPos, decDict, decLeft, decItem, lzPc, lzSt, lzCode, pipe,
                   stdinClosed, pipeClosed, rdVars, isClosed, output>>

ReceiveItem ==
    /\ drvPc = "loop" /\ decPc = "send"
    /\ Receive(decItem)
    /\ decPc' = IF decItem.Error # "" THEN "closed" ELSE "read"
    /\ UNCHANGED <<tool, scn, decPos, decDict, decLeft, decItem, lzPc, lzSt, lzCode, pipe,
                   stdinClosed, pipeClosed, rdVars, isClosed, output>>

(* the channel is closed: lines 382-399 *)
EndOfStream ==
    /\ drvPc = "loop" /\ decPc = "closed"
    /\ LET Finished(f, t) ==
               /\ DecompressorWrite(f.write,
                                    [hist EXCEPT !.digest = f.digest,
                                                 !.twinSame = /\ @
                                                              /\ t.ret = f.ret
                                                              /\ t.write = f.write])
               /\ retval' = f.ret
               /\ drvPc' = "close"
       IN  Finished(FinishResult(drv, md5Digestor), FinishResult(hist.twinDrv, md5Digestor))
    /\ UNCHANGED <<tool, scn, drv, md5Digestor, decVars, lzPc, lzSt, lzCode, pipe, stdinClosed,
                   pipeClosed, rdVars, isClosed, output>>

(* the deferred decompressor.Close(): isClosed is set and stdin is closed *)
CloseStdin ==
    /\ drvPc = "close"
    /\ isClosed' = TRUE
    /\ stdinClosed' = TRUE
    /\ drvPc' = "wait"
    /\ UNCHANGED <<tool, scn, retval, drv, md5Digestor, decVars, lzVars, pipeClosed, rdVars,
                   output, hist>>

(* Close without the cmd.Wait() of lines 359-361 *)
ReturnWithoutWait ==
    /\ drvPc = "wait"
    /\ drvPc' = "returned"
    /\ UNCHANGED <<tool, scn, retval, drv, md5Digestor, decVars, lzVars, stdinClosed,
                   pipeClosed, rdVars, isClosed, output, hist>>

(* cmd.Wait() returns once lz4 has exited and closes the stdout pipe; its *)
(* error is dropped by the defer and DecryptStream returns retval         *)
WaitAndReturn ==
    /\ drvPc = "wait" /\ lzPc = "exited"
    /\ pipeClosed' = TRUE
    /\ drvPc' = "returned"
    /\ UNCHANGED <<tool, scn, retval, drv, md5Digestor, decVars, lzVars, stdinClosed, rdVars,
                   isClosed, output, hist>>

(* the lz4 process consumes stdin, writes stdout or exits *)
Lz4Step ==
    /\ lzPc = "run" /\ ~Crashed
    /\ LET n == Lz4Next(lzSt, stdinBuf, stdinClosed)
       IN  /\ n.kind # "wait"
           /\ IF n.kind = "exit"
              THEN /\ lzPc' = "exited" /\ lzCode' = n.code
                   /\ UNCHANGED <<lzSt, stdinBuf, pipe, hist>>
              ELSE /\ lzSt' = n.st
                   /\ stdinBuf' = SubSeq(stdinBuf, n.n + 1, Len(stdinBuf))
                   /\ pipe' = pipe \o n.out
                   /\ hist' = [hist EXCEPT !.lzOut = @ \o n.out]
                   /\ UNCHANGED <<lzPc, lzCode>>
    /\ UNCHANGED <<tool, scn, drvVars, md5Digestor, decVars, stdinClosed, pipeClosed,
                   rdVars, isClosed, output>>

(* readOutput: l.stdout.Read(buffer) (lines 317-335) *)
ReadOutput ==
    /\ rdPc = "read" /\ ~Crashed
    /\ IF pipeClosed
       THEN /\ rdPc' = "done"
            /\ hist' = [hist EXCEPT !.reported = @ \/ ~isClosed]
            /\ UNCHANGED <<rdBuf, pipe>>
       ELSE IF pipe # << >>
       THEN /\ rdPc' = "handle" /\ rdBuf' = pipe /\ pipe' = << >>
            /\ UNCHANGED hist
       ELSE /\ lzPc = "exited"
            /\ rdPc' = "done"
            /\ UNCHANGED <<rdBuf, pipe, hist>>
    /\ UNCHANGED <<tool, scn, drvVars, md5Digestor, decVars, lzPc, lzSt, lzCode, stdinBuf,
                   stdinClosed, pipeClosed, isClosed, output>>

(* readOutput: l.handler(buffer[:n]), the closure of lines 213-218 *)
HandleOutput ==
    /\ rdPc = "handle" /\ ~Crashed
    /\ IF S.sinkFails
       THEN /\ output' = output
            /\ hist' = [hist EXCEPT !.sinkErr = TRUE, !.lateWrite = @ \/ drvPc = "returned"]
       ELSE /\ output' = output \o rdBuf
            /\ hist' = [hist EXCEPT !.lateWrite = @ \/ drvPc = "returned"]
    /\ md5Digestor' = IF md5Digestor.nil THEN md5Digestor
                      ELSE [md5Digestor EXCEPT !.data = @ \o rdBuf]
    /\ rdPc' = "read"
    /\ rdBuf' = << >>
    /\ UNCHANGED <<tool, scn, drvVars, decVars, lzVars, stdinClosed, pipeClosed, isClosed>>

Next ==
    \/ Start
    \/ DecoderRead
    \/ ReceiveHeader
    \/ ReceiveItem
    \/ EndOfStream
    \/ CloseStdin
    \/ WaitAndReturn
    \/ Lz4Step
    \/ ReadOutput
    \/ HandleOutput

Spec == Init /\ [][Next]_vars

(***************************************************************************)
(* The batch entry points.  DecryptFile (part_003 lines 16-56) fails on   *)
(* the files listed in tool.fails and succeeds on the others; results     *)
(* holds one DecryptResult for each call of it.                           *)
(***************************************************************************)
FilesInit ==
    /\ scn = Scn("none", << >>, Nil, Nil)
    /\ tool \in {t \in ToolInputs : t.fails \subseteq DOMAIN t.files}
    /\ NotCalled

DecryptFileOK == tool.idx \notin tool.fails

Visit(outputFile, go) ==
    tool' = [tool EXCEPT !.results = Append(@, Result(tool.files[tool.idx], outputFile,
                                                      DecryptFileOK)),
                         !.idx = IF go THEN @ + 1 ELSE @,
                         !.pc = IF go THEN @ ELSE "done",
                         !.ret = IF go THEN @ ELSE "failed to decrypt"]

Done == tool' = [tool EXCEPT !.pc = "done", !.ret = "ok"]

(* part_003 lines 60-77: one iteration of the loop of DecryptFiles *)
DecryptFilesIteration ==
    /\ tool.entry = "DecryptFiles" /\ tool.pc = "loop"
    /\ IF tool.idx > Len(tool.files) THEN Done
       ELSE Visit(DecryptFilesOutputFile(tool.files[tool.idx], OutDir), DecryptFileOK)
    /\ UNCHANGED callVars

(* part_003 lines 84-122: filepath.Walk calls the function for one more *)
(* file (its relative path is tool.files[idx]), or has ended            *)
DecryptDirectoryVisit ==
    /\ tool.entry = "DecryptDirectory" /\ tool.pc = "loop"
    /\ IF tool.idx > Len(tool.files) THEN Done
       ELSE Visit(DecryptDirectoryOutputPath(tool.files[tool.idx], OutDir), TRUE)
    /\ UNCHANGED callVars

(* part_003 lines 351-371: one iteration of the loop of BatchDecrypt, *)
(* not recursive                                                      *)
BatchDecryptIteration ==
    /\ tool.entry = "BatchDecrypt" /\ tool.pc = "loop"
    /\ IF tool.idx > Len(tool.files) THEN Done
       ELSE IF ~IsEncryptedFile(tool.files[tool.idx])
            THEN tool' = [tool EXCEPT !.idx = @ + 1]
       ELSE Visit(Join(OutDir, GenerateOutputFilename(tool.files[tool.idx])), TRUE)
    /\ UNCHANGED callVars

(* part_001 lines 118-132: one iteration of the loop of main over its *)
(* arguments, each a file (processFileWithResult, lines 177-197)      *)
MainIteration ==
    /\ tool.entry = "main" /\ tool.pc = "loop"
    /\ IF tool.idx > Len(tool.files) THEN Done
       ELSE Visit(generateOutputFileName(tool.files[tool.idx], OutDir), TRUE)
    /\ UNCHANGED callVars

(* the four derivations of an output name, applied to one input name *)
DeriveNames ==
    /\ tool.entry = "names" /\ tool.pc = "loop"
    /\ tool' = [tool EXCEPT
                   !.pc = "done",
                   !.names = << generateOutputFileName(tool.files[1], OutDir),
                                DecryptFilesOutputFile(tool.files[1], OutDir),
                                DecryptDirectoryOutputPath(tool.files[1], OutDir),
                                Join(OutDir, GenerateOutputFilename(tool.files[1])) >>]
    /\ UNCHANGED callVars

FilesNext ==
    \/ DecryptFilesIteration
    \/ DecryptDirectoryVisit
    \/ BatchDecryptIteration
    \/ MainIteration
    \/ DeriveNames

FilesSpec == FilesInit /\ [][FilesNext]_vars

(***************************************************************************)
(* The pure functions of the decoder and of the cipher file, called on     *)
(* their own: tool holds the function called, its arguments and, once it    *)
(* has returned, its results.                                               *)
(***************************************************************************)
MaxIntLen == 9

MaxPadLen == 33

(* what follows the tag byte 0x01: a length byte 0..MaxIntLen and between  *)
(* no and MaxIntLen body bytes, among them bodies with the top bit set     *)
IntBodies ==
    { [i \in 1..MaxIntLen |-> 255],
      [i \in 1..MaxIntLen |-> IF i = 1 THEN 128 ELSE IF i = 8 THEN 1 ELSE 0],
      [i \in 1..MaxIntLen |-> IF i = 1 THEN 127 ELSE 255],
      [i \in 1..MaxIntLen |-> i],
      [i \in 1..MaxIntLen |-> 0] }

ReadIntInputs ==
    { <<l>> \o SubSeq(b, 1, n) : l \in 0..MaxIntLen, n \in 0..MaxIntLen, b \in IntBodies }

KDFInputs ==
    [password : {<< >>, PwGood, [i \in 1..20 |-> 7 * i]},
     salt : {<< >>, <<115>>, [i \in 1..8 |-> 200 + i]},
     keySize : {0, 1, 16, 32, 33},
     ivSize : {0, 16, 17}]

(* the byte strings that are padded: every length 0..MaxPadLen, also with *)
(* a tail that looks like padding                                         *)
PadBodies ==
    { [i \in 1..MaxPadLen |-> 16],
      [i \in 1..MaxPadLen |-> 1],
      [i \in 1..MaxPadLen |-> i],
      [i \in 1..MaxPadLen |-> 0] }

PadInputs == { SubSeq(b, 1, n) : n \in 0..MaxPadLen, b \in PadBodies }

(* the byte strings StripPKCS7Padding is called on as they are: every   *)
(* length 0..MaxPadLen; tails that are a padding, that end in 0, that end *)
(* in a byte over 16, that end in a count the bytes before do not repeat  *)
RawBodies ==
    PadBodies \cup
    { [i \in 1..MaxPadLen |-> IF i % 16 \in {0, 14, 15} THEN 3 ELSE 9],
      [i \in 1..MaxPadLen |-> IF i % 16 = 15 THEN 9 ELSE 2],
      [i \in 1..MaxPadLen |-> IF i % 16 = 0 THEN 0 ELSE 5],
      [i \in 1..MaxPadLen |-> IF i % 16 = 1 THEN 7 ELSE 16] }

RawInputs == { SubSeq(b, 1, n) : n \in 0..MaxPadLen, b \in RawBodies }

(* a salt of 0 to 10 characters, a payload, and a payload to compare *)
SaltChars == <<97, 98, 99, 100, 101, 102, 103, 104, 105, 106>>

HashPayloads == {<< >>, PwGood, MaterialRaw, [i \in 1..20 |-> 3 * i]}

SaltedHashInputs ==
    [salt : {SubSeq(SaltChars, 1, n) : n \in 0..Len(SaltChars)},
     data : HashPayloads, other : HashPayloads]

FunctionCall(entry, in) == [entry |-> entry, pc |-> "call", in |-> in, out |-> Nil]

FunctionsInit ==
    /\ scn = Scn("none", << >>, Nil, Nil)
    /\ tool \in {FunctionCall("readInt", in) : in \in ReadIntInputs}
               \cup {FunctionCall("OpenSSLKDF", in) : in \in KDFInputs}
               \cup {FunctionCall("StripPKCS7Padding", in) : in \in PadInputs}
               \cup {FunctionCall("TestStripPKCS7Padding", in) : in \in RawInputs}
               \cup {FunctionCall("SaltedHashOf", in) : in \in SaltedHashInputs}
    /\ NotCalled

Returns(out) ==
    /\ tool' = [tool EXCEPT !.pc = "done", !.out = out]
    /\ UNCHANGED callVars

(* ReadObject has read the tag 0x01 and calls readInt *)
CallReadInt ==
    /\ tool.entry = "readInt" /\ tool.pc = "call"
    /\ Returns(readInt([data |-> tool.in, failAt |-> -1], 0))

CallOpenSSLKDF ==
    /\ tool.entry = "OpenSSLKDF" /\ tool.pc = "call"
    /\ Returns(OpenSSLKDF(tool.in.password, tool.in.salt, tool.in.keySize, tool.in.ivSize))

(* StripPKCS7Padding called on a padded byte string *)
CallStripPKCS7Padding ==
    /\ tool.entry = "StripPKCS7Padding" /\ tool.pc = "call"
    /\ Returns(StripPKCS7Padding(addPKCS7Padding(tool.in)))

(* StripPKCS7Padding called on a byte string as it is *)
CallStripPKCS7PaddingRaw ==
    /\ tool.entry = "TestStripPKCS7Padding" /\ tool.pc = "call"
    /\ Returns(StripPKCS7Padding(tool.in))

(* SaltedHashOf(salt, data), and IsSaltedHashCorrect of its result with *)
(* the same payload and with the other one                               *)
CallSaltedHashOf ==
    /\ tool.entry = "SaltedHashOf" /\ tool.pc = "call"
    /\ LET Checked(h) == [hash |-> h,
                          correct |-> IsSaltedHashCorrect(h, tool.in.data),
                          wrong |-> IsSaltedHashCorrect(h, tool.in.other)]
       IN  Returns(Checked(SaltedHashOf(tool.in.salt, tool.in.data)))

FunctionsNext ==
    \/ CallReadInt
    \/ CallOpenSSLKDF
    \/ CallStripPKCS7Padding
    \/ CallStripPKCS7PaddingRaw
    \/ CallSaltedHashOf

FunctionsSpec == FunctionsInit /\ [][FunctionsNext]_vars

(***************************************************************************)
(* Lz4Decompressor: Close and the readOutput goroutine, step by step.      *)
(* tool holds the position of Close (close), of readOutput (rd), the       *)
(* holder of l.mu (mu), l.isClosed, the copy readOutput takes of it        *)
(* (seen), the lz4 process and its stdout pipe.  A Read of the pipe        *)
(* returns data, io.EOF once lz4 has exited and the pipe is empty, an      *)
(* error once cmd.Wait has closed it, or an error of the system at any     *)
(* time.                                                                   *)
(***************************************************************************)
MaxChunks == 2

ReaderStart ==
    [entry |-> "readOutput", close |-> "idle", rd |-> "read", mu |-> "free",
     isClosed |-> FALSE, seen |-> FALSE, lz |-> "run", produced |-> 0, inPipe |-> 0,
     stdin |-> "open", stdout |-> "open",
     atErr |-> "none",      \* where Close was when Read returned the error
     flagAtErr |-> FALSE,   \* l.isClosed at that moment
     reported |-> FALSE,    \* the error has been printed
     unguarded |-> FALSE]   \* l.isClosed was read or written without holding l.mu

ReaderInit ==
    /\ scn = Scn("none", << >>, Nil, Nil)
    /\ tool = ReaderStart
    /\ NotCalled

ReaderStep(t) == tool.entry = "readOutput" /\ tool' = t /\ UNCHANGED callVars

(* line 317: n, err := l.stdout.Read(buffer), with l.handler(buffer[:n]) *)
ReadStdout ==
    /\ tool.rd = "read"
    /\ LET Fails == [tool EXCEPT !.rd = "err", !.atErr = tool.close,
                                 !.flagAtErr = tool.isClosed]
       IN  \/ /\ tool.stdout = "open" /\ tool.inPipe > 0
              /\ ReaderStep([tool EXCEPT !.inPipe = @ - 1])
           \/ /\ tool.stdout = "open" /\ tool.inPipe = 0 /\ tool.lz = "exited"
              /\ ReaderStep([tool EXCEPT !.rd = "done"])
           \/ ReaderStep(Fails)

(* line 321: l.mu.Lock() *)
ReaderLock ==
    /\ tool.rd = "err" /\ tool.mu = "free"
    /\ ReaderStep([tool EXCEPT !.rd = "locked", !.mu = "reader"])

(* line 322: isClosed := l.isClosed *)
ReaderLoadFlag ==
    /\ tool.rd = "locked"
    /\ ReaderStep([tool EXCEPT !.rd = "unlock", !.seen = tool.isClosed,
                               !.unguarded = @ \/ tool.mu # "reader"])

(* line 323: l.mu.Unlock() *)
ReaderUnlock ==
    /\ tool.rd = "unlock"
    /\ ReaderStep([tool EXCEPT !.rd = "decide", !.mu = "free"])

(* lines 326-332: the error is printed if !isClosed; then return *)
ReaderReport ==
    /\ tool.rd = "decide"
    /\ ReaderStep([tool EXCEPT !.rd = "done", !.reported = ~tool.seen])

(* the deferred call of Close is made *)
CloseCalled ==
    /\ tool.close = "idle"
    /\ ReaderStep([tool EXCEPT !.close = "lock"])

(* line 349: l.mu.Lock() *)
CloseLock ==
    /\ tool.close = "lock" /\ tool.mu = "free"
    /\ ReaderStep([tool EXCEPT !.close = "set", !.mu = "close"])

(* line 350: l.isClosed = true *)
CloseSetFlag ==
    /\ tool.close = "set"
    /\ ReaderStep([tool EXCEPT !.close = "unlock", !.isClosed = TRUE,
                               !.unguarded = @ \/ tool.mu # "close"])

(* line 351: l.mu.Unlock() *)
CloseUnlock ==
    /\ tool.close = "unlock"
    /\ ReaderStep([tool EXCEPT !.close = "stdin", !.mu = "free"])

(* line 354: l.stdin.Close() *)
CloseStdinPipe ==
    /\ tool.close = "stdin"
    /\ ReaderStep([tool EXCEPT !.close = "wait", !.stdin = "closed"])

(* line 359: l.cmd.Wait() returns once lz4 has exited, and closes stdout *)
CloseWait ==
    /\ tool.close = "wait" /\ tool.lz = "exited"
    /\ ReaderStep([tool EXCEPT !.close = "done", !.stdout = "closed"])

(* lz4 writes a chunk to its stdout *)
Lz4Produce ==
    /\ tool.lz = "run" /\ tool.produced < MaxChunks
    /\ ReaderStep([tool EXCEPT !.produced = @ + 1, !.inPipe = @ + 1])

(* lz4 exits: at the end of its input, or on a bad frame *)
Lz4Exit ==
    /\ tool.lz = "run"
    /\ ReaderStep([tool EXCEPT !.lz = "exited"])

ReaderNext ==
    \/ ReadStdout
    \/ ReaderLock
    \/ ReaderLoadFlag
    \/ ReaderUnlock
    \/ ReaderReport
    \/ CloseCalled
    \/ CloseLock
    \/ CloseSetFlag
    \/ CloseUnlock
    \/ CloseStdinPipe
    \/ CloseWait
    \/ Lz4Produce
    \/ Lz4Exit

ReaderSpec == ReaderInit /\ [][ReaderNext]_vars

(* the calls of DecryptStream and the calls of the functions on their own *)
StreamAndFunctionsSpec == (Init \/ FunctionsInit) /\ [][Next \/ FunctionsNext]_vars

(***************************************************************************)
(* DecryptFile (part_003 lines 16-56) and the two paths it names.  The    *)
(* file system is the pair of tool.input (does inputFileName exist) and   *)
(* tool.output (the content of outputFileName, Nil when there is no such  *)
(* file); tool.before is tool.output as it was when DecryptFile was       *)
(* called.  tool.env is what the system and DecryptStream will answer:    *)
(* EnsureDir, os.Open and os.Create succeed or fail, and                  *)
(* DecryptStreamWithFilename writes env.n bytes and then returns nil,     *)
(* returns an error or panics.  os.Remove of the file just created and    *)
(* closed succeeds.                                                       *)
(***************************************************************************)
MaxWritten == 2

OldContents == {Nil, << >>, <<7>>, <<7, 8>>}

DecryptFileEnvs ==
    [dir : BOOLEAN, open : BOOLEAN, create : BOOLEAN,
     stream : {"ok", "error", "panic"}, n : 0..MaxWritten]

(* util.FileExists: there is a file system entry of that path *)
FileExists(content) == content # Nil

DecryptFileStart(input, old, env) ==
    [entry |-> "DecryptFile", pc |-> "input", input |-> input, output |-> old,
     before |-> old, env |-> env,
     created |-> FALSE,   \* os.Create has made outputFileName
     isOpen |-> FALSE,    \* outputFile is open
     ret |-> ""]

DecryptFileInit ==
    /\ scn = Scn("none", << >>, Nil, Nil)
    /\ tool \in {DecryptFileStart(input, old, env) :
                    input \in BOOLEAN, old \in OldContents, env \in DecryptFileEnvs}
    /\ NotCalled

DecryptFileStep(from, t) ==
    /\ tool.entry = "DecryptFile" /\ tool.pc = from
    /\ tool' = t
    /\ UNCHANGED callVars

DecryptFileReturn(err) == [tool EXCEPT !.pc = "returned", !.ret = err, !.isOpen = FALSE]

(* lines 18-20 *)
CheckInputFile ==
    DecryptFileStep("input",
        IF ~FileExists(IF tool.input THEN << >> ELSE Nil)
        THEN DecryptFileReturn("input file does not exist")
        ELSE [tool EXCEPT !.pc = "output"])

(* lines 23-25 *)
CheckOutputFile ==
    DecryptFileStep("output",
        IF FileExists(tool.output)
        THEN DecryptFileReturn("output file already exists")
        ELSE [tool EXCEPT !.pc = "dir"])

(* lines 28-31 *)
EnsureOutputDir ==
    DecryptFileStep("dir",
        IF ~tool.env.dir
        THEN DecryptFileReturn("failed to create output directory")
        ELSE [tool EXCEPT !.pc = "open"])

(* lines 34-38 *)
OpenInputFile ==
    DecryptFileStep("open",
        IF ~tool.env.open
        THEN DecryptFileReturn("failed to open input file")
        ELSE [tool EXCEPT !.pc = "create"])

(* lines 41-45: os.Create makes the file, or truncates the one there is *)
CreateOutputFile ==
    DecryptFileStep("create",
        IF ~tool.env.create
        THEN DecryptFileReturn("failed to create output file")
        ELSE [tool EXCEPT !.pc = "stream", !.output = << >>, !.created = TRUE,
                          !.isOpen = TRUE])

(* line 48, inside DecryptStreamWithFilename: one more byte reaches the *)
(* writer                                                               *)
StreamWrites ==
    /\ tool.entry = "DecryptFile" /\ tool.pc = "stream"
    /\ Len(tool.output) < tool.env.n
    /\ DecryptFileStep("stream", [tool EXCEPT !.output = Append(@, Len(@) + 1)])

(* lines 48-55 written without the os.Remove of line 51 *)
StreamReturnsKeepFile ==
    /\ tool.entry = "DecryptFile" /\ tool.pc = "stream"
    /\ Len(tool.output) = tool.env.n
    /\ DecryptFileStep("stream",
        CASE tool.env.stream = "ok" -> DecryptFileReturn("ok")
          [] tool.env.stream = "error" -> DecryptFileReturn("decryption failed")
          [] OTHER -> [tool EXCEPT !.pc = "panicked", !.isOpen = FALSE])

(* lines 48-55: DecryptStreamWithFilename returns nil, or returns an error *)
(* (outputFile.Close, os.Remove, return), or panics (the deferred Close    *)
(* runs and the panic goes on to the caller)                               *)
StreamReturns ==
    /\ tool.entry = "DecryptFile" /\ tool.pc = "stream"
    /\ Len(tool.output) = tool.env.n
    /\ DecryptFileStep("stream",
        CASE tool.env.stream = "ok" -> DecryptFileReturn("ok")
          [] tool.env.stream = "error" ->
                [DecryptFileReturn("decryption failed") EXCEPT !.output = Nil]
          [] OTHER -> [tool EXCEPT !.pc = "panicked", !.isOpen = FALSE])

DecryptFileNext ==
    \/ CheckInputFile
    \/ CheckOutputFile
    \/ EnsureOutputDir
    \/ OpenInputFile
    \/ CreateOutputFile
    \/ StreamWrites
    \/ StreamReturns

DecryptFileSpec == DecryptFileInit /\ [][DecryptFileNext]_vars

(***************************************************************************)
(* Properties                                                              *)
(***************************************************************************)
(* the driver has left the receive loop *)
Leaving == {"close", "wait", "returned"}

Returned == drvPc = "returned"

Failed == retval \notin {"", "ok"}

(* the input starts with the magic and the lowercase hex MD5 of the magic *)
HasPreamble ==
    /\ Len(S.data) >= 49
    /\ SubSeq(S.data, 1, 17) = MagicHeader
    /\ SubSeq(S.data, 18, 49) = HexEncodeToString(MD5Sum(MagicHeader))

(* C1: for a well-formed container given with its password, DecryptStream *)
(* returns success and the output sink holds exactly the plaintext.       *)
C1_WellFormedRoundTrip ==
    (S.wellFormed /\ ~S.sinkFails /\ Returned) => (retval = "ok" /\ output = S.plain)

(* C2: an input whose first 49 bytes are not the preamble makes           *)
(* DecryptStream return an error before any object is decoded: the        *)
(* decoder goroutine is never started, no item is received, lz4 is not    *)
(* started and nothing is written.                                        *)
C2_BadPreambleRejected ==
    (~HasPreamble /\ drvPc # "init") =>
        /\ Returned /\ retval = "failed to decode stream"
        /\ decPc = "none" /\ decItem = NoItem /\ hist.items = 0
        /\ lzPc = "none" /\ rdPc = "none" /\ output = << >>

C2_Witness ==
    /\ ~HasPreamble /\ Len(S.data) > 49 /\ SubSeq(S.data, 1, 17) = MagicHeader
    /\ Returned

(* C3: at the first data chunk exactly one unwrap function is called: the *)
(* password one if the config has a password and enc_key1 was received,   *)
(* else the private-key one if the config has a private key and enc_key2  *)
(* was received, else none and the call fails.  When the called one fails *)
(* the call fails at that chunk and no other unwrap is ever called.       *)
C3_OneUnwrapPath ==
    /\ Len(hist.tried) <= 1
    /\ hist.firstData = "none" => hist.tried = << >>
    /\ hist.firstData \in {"password", "private_key"} =>
          /\ Len(hist.tried) = 1
          /\ hist.tried[1].path = hist.firstData
          /\ hist.tried[1].failed => (Failed /\ drvPc \in Leaving /\ hist.data = 1)
    /\ hist.firstData = "fail" => (hist.tried = << >> /\ Failed /\ drvPc \in Leaving)

C3_Witness ==
    /\ hist.tried = <<Called("password", TRUE)>>
    /\ Config.PrivateKey = PrivGood /\ T_enc_key2 \in hist.headers
    /\ Returned

(* C4: with a password, enc_key1 and a key1_hash that is not the salted   *)
(* hash of the password, DecryptStream fails with "password hash          *)
(* mismatch" in whatever order the two headers are received.              *)
C4_HashMismatchAnyOrder ==
    (S.kind = "hash" /\ S.Password = PwWrong /\ Returned) => retval = "password hash mismatch"

(* C5: a version header (integer major and minor) whose major is neither  *)
(* 1 nor 3 makes DecryptStream fail with "unsupported version" wherever   *)
(* it stands in the stream; with major 1 or 3 it is accepted whatever the *)
(* minor.                                                                 *)
C5_VersionGate ==
    /\ hist.major \notin {Nil, Int64Of(1), Int64Of(3)} =>
          /\ hist.version = "unsupported version"
          /\ retval = "unsupported version" /\ drvPc \in Leaving
    /\ hist.major \in {Int64Of(1), Int64Of(3)} => hist.version = "accepted"

C5_Witness ==
    /\ hist.major = Int64Of(2) /\ hist.data = 2
    /\ Returned /\ retval = "unsupported version"

(* C6: when the first data chunk is received and neither (password and    *)
(* enc_key1) nor (private key and enc_key2) is at hand, DecryptStream     *)
(* fails with "not enough information to decrypt data" at that chunk:     *)
(* nothing after it is received, so a later enc_key1 or enc_key2 changes  *)
(* nothing.                                                               *)
C6_MissingKeyFails ==
    hist.firstData = "fail" =>
        /\ retval = "not enough information to decrypt data"
        /\ drvPc \in Leaving
        /\ hist.data = 1 /\ hist.tried = << >> /\ hist.fed = << >>

C6_Witness ==
    /\ hist.firstData = "fail" /\ Returned
    /\ S.data = KeyContainers[5] /\ Config.Password = PwGood /\ Config.PrivateKey = PrivGood

(* C7: on a proper prefix, longer than the preamble, of a valid container *)
(* DecryptStream never returns success.                                   *)
C7_PrefixFails ==
    (S.kind = "cut" /\ Returned) => retval # "ok"

(* C8: when DecryptStream returns success every byte lz4 has produced is  *)
(* in the output sink, and the handler never writes after the return.     *)
C8_OutputCompleteAtReturn ==
    (~S.sinkFails /\ Returned /\ retval = "ok") => (output = hist.lzOut /\ ~hist.lateWrite)

(* C9: when lz4 has exited with a non-zero status DecryptStream returns   *)
(* an error.                                                              *)
C9_Lz4FailureReported ==
    (Returned /\ lzCode # 0) => retval # "ok"

(* C11: a run and its twin, which receives the same items except for    *)
(* another text as file_md5, return the same result and make the same   *)
(* writes at every step, whatever the comparison of the MD5 finds.      *)
C11_FileMD5Irrelevant ==
    /\ hist.twinSame
    /\ SameButFileMD5(hist.twinDrv, drv)

C11_Witness ==
    /\ T_file_md5 \in hist.headers /\ hist.twinDrv.expectedMD5Digest # drv.expectedMD5Digest
    /\ hist.digest = "equal"
    /\ Returned /\ retval = "ok" /\ output = PlainShort

(* C12: once DecryptStream has returned an error, the lz4 process has    *)
(* been closed and waited for, and the decoder goroutine is not blocked  *)
(* on a channel send.  Only the loop of the driver receives from ch, so  *)
(* a decoder that is at a send when the driver has returned stays there. *)
C12_ResourcesReleased ==
    (Returned /\ Failed /\ ~IsPanic(retval))
        => /\ lzPc \in {"none", "exited"}
           /\ decPc \notin {"send", "range"}

(* a send of the decoder is completed by the driver's loop only *)
BlockedDecoderStays ==
    [][(drvPc \in Leaving /\ decPc \in {"send", "range"})
          => (decPc' = decPc /\ drvPc' \in Leaving)]_vars

(* C13: when the input reader fails on some read (with an error that is  *)
(* not io.EOF), DecryptStream returns an error, never nil, and the lz4    *)
(* process, if it was started, has been closed and waited for.           *)
C13_ReadErrorReported ==
    (S.failAt >= 0 /\ Returned)
        => /\ Failed /\ ~IsPanic(retval)
           /\ lzPc = "none" \/ (isClosed /\ stdinClosed /\ lzPc = "exited")

C13_Witness ==
    /\ S.failAt > Len(Preamble) /\ Returned /\ retval = "read error"
    /\ hist.data > 0
    /\ isClosed /\ lzPc = "exited"

(* C14: when a batch entry point is done, DecryptFile has been called  *)
(* for every file of the batch that it would be called for if no file  *)
(* failed: a file that fails does not keep the later files from being  *)
(* attempted.                                                          *)
Attempted == {tool.results[k].InputFile : k \in DOMAIN tool.results}

C14_FailureDoesNotStopBatch ==
    (tool.pc = "done" /\ tool.entry \in Entries)
        => \A k \in DOMAIN tool.files :
               (tool.entry = "BatchDecrypt" => IsEncryptedFile(tool.files[k]))
                   => tool.files[k] \in Attempted

(* C15: each derivation of an output name removes the extension of the *)
(* base name if and only if it is, in any case of letters, one of     *)
(* .cse, .enc, .cloudsync, .csenc, and keeps the base name otherwise.  *)
ExpectedName(inputFile) ==
    IF ToLower(Ext(Base(inputFile))) \in {Ext_cse, Ext_enc, Ext_cloudsync, Ext_csenc}
    THEN TrimExt(Base(inputFile), Ext(Base(inputFile)))
    ELSE Base(inputFile)

C15_ExtensionRule ==
    (tool.entry = "names" /\ tool.pc = "done")
        => \A k \in 1..4 : Base(tool.names[k]) = ExpectedName(tool.files[1])

(* C16: a data chunk or an enc_key1 ciphertext whose length is not a    *)
(* multiple of 16 makes DecryptStream return an error value; the call   *)
(* does not end in a panic.                                             *)
C16_OddLengthIsAnError ==
    (S.kind = "badlen" /\ Returned) => (Failed /\ ~IsPanic(retval))

(* C17: for a container of version major 3 whose unwrapped session key *)
(* is not hex text, DecryptStream returns an error and no data chunk   *)
(* has been decrypted and passed on.                                   *)
C17_BadHexKeyFails ==
    (S.kind = "badhex" /\ Returned) => (Failed /\ hist.fed = << >> /\ output = << >>)

IsPrefix(a, b) == Len(a) <= Len(b) /\ a = SubSeq(b, 1, Len(a))

(* the input holds the two data chunks of LongStream, or a part of them *)
LongInput == S.data = ValidPlain \/ S.kind \in {"cut", "ioerr", "version"}

LongChunks ==
    << SubSeq(LongStream, 1, BlockSize), SubSeq(LongStream, BlockSize + 1, Len(LongStream)) >>

(* C18: the bytes reach the sink in the order of the file.  The data    *)
(* chunks are received and passed to the decompressor in the order of   *)
(* the input; what the sink holds, followed by the block being handled  *)
(* and by what is still in the pipe, is what lz4 has written; only the  *)
(* handler run by readOutput writes to the sink, one block at a time,   *)
(* and the next block is read only when the last one is written.        *)
C18_StrictOrder ==
    [][/\ LongInput => /\ IsPrefix(hist'.cipher, LongChunks)
                       /\ IsPrefix(Flatten(hist'.writes, 1), Lz4Frame(PlainLong))
                       /\ IsPrefix(output', PlainLong)
       /\ IsPrefix(hist'.fed, Flatten(hist'.writes, 1))
       /\ ~S.sinkFails => output' \o rdBuf' \o pipe' = hist'.lzOut
       /\ output' # output => (rdPc = "handle" /\ rdPc' = "read" /\ output' = output \o rdBuf)
       /\ (rdBuf' # rdBuf /\ rdBuf' # << >>) => (rdPc = "read" /\ rdBuf = << >>)]_vars

C18_Witness ==
    /\ S.data = ValidPlain /\ hist.cipher = LongChunks /\ Len(hist.writes) = 2
    /\ output = PlainLong

(* the chunks decrypted so far but the last *)
AllButLast == SubSeq(hist.chunks, 1, Len(hist.chunks) - 1)

(* C19: with the data chunks c1..cn decrypted to D(c1)..D(cn), the calls *)
(* of decompressor.Write are given D(c1)..D(c(n-1)), unmodified and in   *)
(* order, each one only when the next chunk has been received, and at    *)
(* the end of the stream the last one with its PKCS7 padding removed; no *)
(* other chunk is stripped and at most one chunk is held back.           *)
C19_HoldBackOne ==
    /\ drvPc = "loop" => hist.writes = AllButLast
    /\ (drvPc \in Leaving /\ retval = "ok")
          => hist.writes = IF hist.chunks = << >> THEN << >>
                           ELSE Append(AllButLast,
                                       StripPKCS7Padding(hist.chunks[Len(hist.chunks)]).data)
    /\ (drvPc \in Leaving /\ Failed)
          => \/ hist.writes = AllButLast
             \/ hist.writes = hist.chunks /\ Len(hist.cipher) > Len(hist.chunks)

C19_Witness ==
    /\ S.data = ValidPlain /\ Returned /\ retval = "ok"
    /\ Len(hist.chunks) = 2
    /\ hist.writes = <<hist.chunks[1], StripPKCS7Padding(hist.chunks[2]).data>>
    /\ hist.writes[2] # hist.chunks[2]

(* C20: the running MD5 is compared with file_md5 only when the        *)
(* decompressor has been flushed: its input is closed, lz4 has ended,  *)
(* and every byte it wrote has been handled and added to the MD5.      *)
C20_DigestAfterFlush ==
    [][(hist.digest = "none" /\ hist'.digest # "none")
          => /\ stdinClosed' /\ lzPc' = "exited"
             /\ stdinBuf' = << >> /\ pipe' = << >> /\ rdBuf' = << >>
             /\ md5Digestor'.data = hist'.lzOut]_vars

(* C21: the key of the data-stream cipher is derived, with an empty     *)
(* salt, from the raw session key when the version major is 1 and from  *)
(* the hex-decoded session key when it is 3, whether or not a salt      *)
(* header is present.                                                   *)
MaterialByMajor(major, sessionKey) ==
    IF major = Int64Of(3) THEN HexDecode(sessionKey).data ELSE sessionKey

C21_MaterialByMajor ==
    (S.kind = "valid" /\ ~drv.decryptor.nil /\ hist.major \in {Int64Of(1), Int64Of(3)})
        => drv.decryptor.bm.key
             = OpenSSLKDF(MaterialByMajor(hist.major, drv.sessionKey), << >>,
                          aesKeySizeBits \div 8, aesIVLengthBytes).key

(* C22: the key is unwrapped and the block decryptor is built once, at  *)
(* the first data chunk.  From then on the session key and the cipher   *)
(* key stay as they are and the CBC state changes only when a data      *)
(* chunk is decrypted, whatever headers arrive later.                   *)
C22_KeyFrozenAtFirstData ==
    [][/\ hist.data = 0 => drv.decryptor.nil
       /\ Len(hist'.tried) <= 1
       /\ hist'.tried # hist.tried => (hist.data = 0 /\ hist'.data = 1)
       /\ ~drv.decryptor.nil
            => /\ ~drv'.decryptor.nil
               /\ drv'.decryptor.bm.key = drv.decryptor.bm.key
               /\ drv'.sessionKey = drv.sessionKey
               /\ drv'.decryptor.bm.iv # drv.decryptor.bm.iv => hist'.data = hist.data + 1]_vars

C22_Witness ==
    /\ S.kind = "late" /\ Returned /\ retval = "ok"
    /\ drv.salt = SaltText /\ drv.sessionKeyHash # << >>
    /\ hist.data = 2 /\ Len(hist.tried) = 1
    /\ hist.fed = Lz4Frame(PlainLong) /\ output = PlainLong

(* v = p || hex(MD5(p || key)) with p the first min(10, len(v) - 32) *)
(* characters of v                                                  *)
IsSaltedHashOfKey(v, key) ==
    /\ Len(v) >= 32
    /\ v = SaltedHashOf(SubSeq(v, 1, Min(10, Len(v) - 32)), key)

(* C23: when the key is unwrapped, a session_key_hash v received before *)
(* the first data chunk is accepted if and only if it is the salted     *)
(* hash of the session key, the salt being the first min(10, len(v) -   *)
(* 32) characters of v; otherwise the call fails with a session key     *)
(* hash mismatch.                                                       *)
C23_SessionKeyHashRule ==
    (S.kind = "skhash" /\ Returned)
        => IF IsSaltedHashOfKey(drv.sessionKeyHash, drv.sessionKey)
           THEN retval = "ok"
           ELSE retval = "session key hash mismatch"

(* C24: a salt header sent as a byte string is taken as the salt, and *)
(* the password path unwraps the session key with the key and IV      *)
(* derived from the password and that salt.                           *)
C24_ByteSaltIsUsed ==
    (S.kind = "salt_bytes" /\ hist.data > 0)
        => /\ drv.salt = SaltText
           /\ drv.sessionKey = MaterialRaw

(* C25: a header of a known key whose value is not of the expected   *)
(* kind makes DecryptStream return an error: the call neither goes on *)
(* as if the header were absent nor ends in a panic.                  *)
C25_VariantMismatchIsAnError ==
    (S.kind = "variant" /\ Returned) => (Failed /\ ~IsPanic(retval))

(* C26: the decoder goroutine ends cleanly (closes the channel without *)
(* an error item) only when the input ended exactly at the boundary of  *)
(* a top-level object: the read that found the end consumed no byte. An *)
(* end after a tag byte, or before a map is terminated, is an error.    *)
C26_CleanEndOnlyAtBoundary ==
    [][(decPc = "read" /\ decPc' = "closed") => decPos' = decPos]_vars

(* C27: a byte outside {0x42, 0x40, 0x11, 0x10, 0x01} where a type tag *)
(* is expected, at top level or nested in a map, ends the call with the *)
(* unknown-tag error, and nothing that follows the byte in the input    *)
(* reaches the driver: only the enc_key1 header sent before it does.    *)
C27_UnknownTagStops ==
    S.kind = "tag"
        => /\ hist.headers \subseteq {T_enc_key1}
           /\ hist.data = 0 /\ output = << >>
           /\ Returned => retval = "unknown type byte"

C27_Witness ==
    /\ S.data = TagContainers[4] /\ Returned /\ retval = "unknown type byte"
    /\ hist.headers = {T_enc_key1} /\ decPc = "closed" /\ decPos < Len(S.data)

(* the sign of a Go int held in a 64-bit register *)
Int64Negative(reg) == reg[1] >= 128

(* the unsigned big-endian value of at most 8 bytes, as 8 bytes *)
Unsigned64(body) ==
    [i \in 1..8 |-> IF i <= 8 - Len(body) THEN 0 ELSE body[i - (8 - Len(body))]]

(* C28: readInt, given a length byte l and the bytes after it, fails when *)
(* l > 8 or fewer than l bytes follow; otherwise it consumes the l bytes  *)
(* and returns their unsigned big-endian value, which is never negative,  *)
(* also for l = 8 with the top bit set; l = 0 gives 0.                    *)
C28_ReadIntUnsigned ==
    (tool.entry = "readInt" /\ tool.pc = "done")
        => LET l == tool.in[1]
               o == tool.out
           IN  IF l > 8 \/ Len(tool.in) - 1 < l THEN o.err # ""
               ELSE /\ o.err = "" /\ o.pos = 1 + l
                    /\ o.val = VInt(Unsigned64(SubSeq(tool.in, 2, 1 + l)))
                    /\ ~Int64Negative(o.val.v)

(* the blocks B1, B2, ... Bn of the key stream, B(i) being MD5 applied  *)
(* count times to B(i-1) || P || S                                       *)
RECURSIVE KeyStreamBlocks(_, _, _, _)
KeyStreamBlocks(prev, n, tail, count) ==
    IF n = 0 THEN << >>
    ELSE LET Next1(b) == b \o KeyStreamBlocks(b, n - 1, tail, count)
         IN  Next1(HashCountTimes(prev \o tail, count))

KeyStream(in) ==
    KeyStreamBlocks(<< >>, (in.keySize + in.ivSize + MD5Size - 1) \div MD5Size,
                    in.password \o in.salt, IF in.salt # << >> THEN 1000 ELSE 1)

(* C29: OpenSSLKDF(P, S, K, V) returns without error a key of exactly K  *)
(* bytes and an IV of exactly V bytes, the first K and the next V bytes   *)
(* of B1 || B2 || ..., where B(i) is MD5 applied count times to           *)
(* B(i-1) || P || S, B0 is empty and count is 1000 for a non-empty S and  *)
(* 1 otherwise; the result is a function of the arguments alone.          *)
C29_OpenSSLKDFStream ==
    (tool.entry = "OpenSSLKDF" /\ tool.pc = "done")
        => LET WithStream(fd) ==
                   /\ tool.out.err = ""
                   /\ Len(tool.out.key) = tool.in.keySize
                   /\ Len(tool.out.iv) = tool.in.ivSize
                   /\ tool.out.key = SubSeq(fd, 1, tool.in.keySize)
                   /\ tool.out.iv = SubSeq(fd, tool.in.keySize + 1,
                                          tool.in.keySize + tool.in.ivSize)
           IN  WithStream(KeyStream(tool.in))

C29_Witness ==
    /\ tool.entry = "OpenSSLKDF" /\ tool.pc = "done"
    /\ tool.in.salt # << >> /\ tool.in.password # << >>
    /\ tool.in.keySize = 33 /\ tool.in.ivSize = 17
    /\ Len(tool.out.key) = 33 /\ Len(tool.out.iv) = 17

(* C30: for every byte string x, StripPKCS7Padding applied to x padded   *)
(* with 16 - (len(x) mod 16) bytes of that value returns x and no error.  *)
C30_StripUndoesPad ==
    (tool.entry = "StripPKCS7Padding" /\ tool.pc = "done")
        => (tool.out.err = "" /\ tool.out.data = tool.in)

C30_Witness ==
    /\ tool.entry = "StripPKCS7Padding" /\ tool.pc = "done"
    /\ Len(tool.in) = 32 /\ tool.in[32] = 16
    /\ tool.out.err = "" /\ tool.out.data = tool.in

(* a non-empty byte string that is not a padded one: its length is not *)
(* a multiple of 16, or its last byte p is over 16, or one of its last p *)
(* bytes is not p                                                        *)
BadPadding(x) ==
    /\ Len(x) > 0
    /\ \/ Len(x) % 16 # 0
       \/ x[Len(x)] > 16
       \/ \E i \in 1..Len(x) : i > Len(x) - x[Len(x)] /\ x[i] # x[Len(x)]

StripRejects == 
    (tool.entry = "TestStripPKCS7Padding" /\ tool.pc = "done" /\ BadPadding(tool.in))
        => (tool.out.err # "" /\ ~IsPanic(tool.out.err) /\ tool.out.data = Nil)

(* C31: StripPKCS7Padding returns an error and no data for an input     *)
(* whose length is not a multiple of 16, whose last byte is over 16, or  *)
(* one of whose last p bytes differs from the last byte p; when the      *)
(* chunk held back at the end of the stream is such an input the call    *)
(* writes nothing more and returns the padding error.                    *)
C31_BadPaddingFails ==
    [][/\ StripRejects'
       /\ (drvPc = "loop" /\ drvPc' = "close" /\ decPc = "closed"
              /\ drv.decryptedChunk # Nil /\ BadPadding(drv.decryptedChunk))
            => (retval' = "failed to strip padding" /\ hist'.writes = hist.writes)
       /\ (retval = "failed to strip padding" /\ drvPc' = "returned")
            => retval' = retval]_vars

C31_Witness ==
    /\ Returned /\ retval = "failed to strip padding"
    /\ BadPadding(drv.decryptedChunk) /\ decPc = "closed"

(* C32: for a salt s of at most 10 characters and payloads d, d', the  *)
(* text SaltedHashOf(s, d) has len(s) + 32 characters and starts with s, *)
(* IsSaltedHashCorrect accepts it for d, and rejects it for a d' whose   *)
(* salted MD5 is another one.                                            *)
C32_SaltedHashRoundTrip ==
    (tool.entry = "SaltedHashOf" /\ tool.pc = "done")
        => /\ Len(tool.out.hash) = Len(tool.in.salt) + 32
           /\ SubSeq(tool.out.hash, 1, Len(tool.in.salt)) = tool.in.salt
           /\ tool.out.correct
           /\ MD5Sum(tool.in.salt \o tool.in.other) # MD5Sum(tool.in.salt \o tool.in.data)
                => ~tool.out.wrong

C34_ReportRule ==
    (tool.entry = "readOutput" /\ tool.rd = "done" /\ tool.atErr # "none")
        => /\ tool.atErr # "idle" => ~tool.reported
           /\ tool.atErr = "idle" => tool.reported
           /\ ~tool.unguarded

KeyFailures ==
    {"failed to decrypt session key with password",
     "failed to decrypt session key with private key",
     "not enough information to decrypt data",
     "session key hash mismatch"}

(* C35: at every write to the decompressor a session key has been       *)
(* unwrapped and the session_key_hash received so far, if there is one,  *)
(* is the salted hash of that key; and when the call returns because the *)
(* unwrap failed, headers were missing or the hash did not match,        *)
(* nothing was written to the decompressor or to the output.             *)
C35_NothingBeforeVerification ==
    [][/\ hist'.writes # hist.writes
            => /\ drv.sessionKey # Nil
               /\ drv.sessionKeyHash # << >>
                    => IsSaltedHashOfKey(drv.sessionKeyHash, drv.sessionKey)
       /\ (drvPc' = "returned" /\ retval' \in KeyFailures)
            => (hist'.writes = << >> /\ output' = << >>)]_vars

(* C36: the decoder goroutine sends nothing after an error item and     *)
(* then closes the channel, so at most one error item is sent and it is  *)
(* the last; a closed channel stays closed; the channel is closed only   *)
(* by the goroutine ending, at the end of the input or after the error   *)
(* item.  While the driver receives, the goroutine ends on every input:  *)
(* each of its steps either closes the channel, offers an error item,    *)
(* consumes input (of which there is Len(S.data)) or hands over one of   *)
(* the pairs left of the map read.                                       *)
C36_ChannelProtocol ==
    [][/\ decPc = "closed" => decPc' = "closed"
       /\ (decPc = "send" /\ decItem.Error # "")
            => (decVars' = decVars \/ (decPc' = "closed" /\ drvPc = "loop"))
       /\ (decPc # "closed" /\ decPc' = "closed")
            => (decPc = "read" \/ (decPc = "send" /\ decItem.Error # ""))
       /\ (decPc = "read" /\ decVars' # decVars)
            => /\ decPos' <= Len(S.data)
               /\ \/ decPc' = "closed"
                  \/ decPc' = "send" /\ decItem'.Error # ""
                  \/ decPos' > decPos
       /\ (decPc = "range" /\ decVars' # decVars)
            => (decLeft' \subseteq decLeft /\ decLeft' # decLeft)]_vars

C36_Witness ==
    /\ Returned /\ decPc = "closed" /\ decItem.Error # "" /\ retval = decItem.Error
    /\ hist.items >= 3 /\ hist.data >= 1

(* the keys of the map whose tag is at offset pos - 1, as they follow *)
(* one another in the input                                          *)
RECURSIVE WireKeys(_, _)
WireKeys(r, pos) ==
    LET key == ReadObject(r, pos)
    IN  IF key.err # "" \/ key.val.t # "str" THEN << >>
        ELSE <<key.val.v>> \o WireKeys(r, ReadObject(r, key.pos).pos)

(* the keys of the top-level map that ends at offset end *)
RECURSIVE KeysOfMapEndingAt(_, _, _)
KeysOfMapEndingAt(r, pos, end) ==
    LET o == ReadObject(r, pos)
    IN  IF o.err # "" \/ o.pos > end THEN << >>
        ELSE IF o.pos = end THEN WireKeys(r, pos + 1)
        ELSE KeysOfMapEndingAt(r, o.pos, end)

IndexOf(seq, x) == CHOOSE i \in 1..Len(seq) : seq[i] = x

(* C37: the header items of a metadata map are sent in the order of its *)
(* pairs in the input, none of them for `type`: the key sent at a step   *)
(* precedes, in the input, every key of the map still to be sent, so the *)
(* sequence of items is a function of the input.                         *)
C37_WireOrder ==
    [][(decPc = "range" /\ decLeft' # decLeft)
          => LET WithKeys(w) ==
                     \A k \in decLeft \ decLeft' :
                         /\ k # T_type
                         /\ \A j \in decLeft' : IndexOf(w, k) < IndexOf(w, j)
             IN  WithKeys(KeysOfMapEndingAt(Reader, Len(Preamble), decPos))]_vars

StripNeverPanics ==
    (tool.entry = "TestStripPKCS7Padding" /\ tool.pc = "done")
        => (/\ ~IsPanic(tool.out.err)
            /\ (tool.in = << >> \/ tool.in[Len(tool.in)] = 0) => tool.out.err # "")

(* C38: StripPKCS7Padding returns the stripped data or an error for    *)
(* every input and never panics; it returns an error for the empty input *)
(* and for an input whose last byte is 0; so DecryptStream returns an    *)
(* error, and does not crash, on a data chunk of no bytes and on an      *)
(* empty enc_key1.                                                       *)
C38_StripTotalAndStrict ==
    /\ StripNeverPanics
    /\ (S.kind = "empty" /\ Returned) => (Failed /\ ~IsPanic(retval))

(* C39: DecryptFile never changes or deletes an output path that existed *)
(* before the call, and then returns an error; when it returns an error  *)
(* after having created the output file, the file is gone again; when it *)
(* returns nil, the output path exists.                                  *)
C39_OutputFileFrame ==
    tool.entry = "DecryptFile" =>
        /\ FileExists(tool.before) =>
              /\ tool.output = tool.before
              /\ tool.pc = "returned" => tool.ret \notin {"", "ok"}
        /\ (tool.pc = "returned" /\ tool.ret # "ok" /\ tool.created) => ~FileExists(tool.output)
        /\ (tool.pc = "returned" /\ tool.ret = "ok") => (FileExists(tool.output) /\ tool.created)

C39_Witness ==
    /\ tool.entry = "DecryptFile" /\ tool.pc = "returned"
    /\ tool.ret = "decryption failed" /\ tool.created
    /\ tool.env.n = MaxWritten /\ ~FileExists(tool.output)

(* C10: once a write to the output sink or to the decompressor has        *)
(* failed, DecryptStream does not return success.                         *)
C10_WriteFailureReported ==
    [][(drvPc # "returned" /\ drvPc' = "returned" /\ (hist.sinkErr \/ hist.stdinErr))
          => retval' # "ok"]_vars

====
